---- MODULE Spec2Model ----
(***************************************************************************)
(* blkchnkr: a userspace block device server (ublk) that stores the disk   *)
(* in fixed-size chunk files.  This module models                          *)
(*   - the request router (src/src/parts.rs),                              *)
(*   - one queue worker: the single-threaded executor                      *)
(*     (src/src/runtime.rs), its per-tag tasks (src/src/task.rs), the      *)
(*     submission entries they build (src/src/sqes.rs) and the buffer      *)
(*     arena (src/src/io_buffers.rs), together with the kernel side that   *)
(*     completes the submitted entries.                                    *)
(***************************************************************************)
EXTENDS Integers, Sequences, FiniteSets, TLC

VARIABLES
    unit,       \* sectors per counted sector (1, or 2^30 for the large-chunk inputs)
    parts,      \* router: the Parts iterator
    emitted,    \* router: the parts returned by next() so far
    exhausted,  \* router: next() has returned None
    calls,      \* router: the number of calls of next() so far, modulo 2
    request,    \* router: the (chunk_size, start_sector, nr_sectors) the iterator was built from
    rt,         \* where Runtime::run stands
    live,       \* Runtime.tasks: the tags whose future is still in the table
    tasks,      \* the state of each tag's Task::run future
    sq,         \* the ring's submission queue: entries pushed, not yet submitted
    inflight,   \* entries the kernel has taken and not completed
    cq,         \* the ring's completion queue
    mailbox,    \* Runtime.mailbox: user_data -> result
    entry_keys, \* run_tasks: the mailbox keys still to go through
    file_indexes, \* chunk index -> fixed-file slot
    chunks,     \* the chunk files that exist in the repository
    descs,      \* the driver's descriptor table of the queue, by tag
    delivered,  \* number of requests the driver has handed out
    faults,     \* number of completions that were short, interrupted or failed
    chunk_dirs, \* chunk files: the directories that exist under the repository
    chunk_files, \* chunk files: path -> the file's length and the offsets written
    callers,    \* chunk files: each worker's call of open_or_create_chunk
    written,    \* chunk files: every (path, offset) a worker has written
    interrupts, \* chunk files: number of ftruncate calls that were interrupted
    sup,        \* supervisor: where start::run stands, and its locals
    ctrl_log,   \* supervisor: the control commands and process events so far, in order
    signal_pending, \* supervisor: a SIGINT or SIGTERM is pending on the signal fd
    worker_threads, \* supervisor: queue id -> the state of its worker thread
    ctrl_ring,  \* supervisor: the control commands on the control ring, not completed
    byte_unit,  \* command line: the unit sizes are counted in ("B", or "TiB" for 2^40 bytes)
    overflow_checks, \* command line: the build panics on integer overflow
    config_file, \* command line: the lines of the repository's config file, if it exists
    cli,        \* command line: the last command, what it was given and what came of it
    cli_runs,   \* command line: the number of commands run
    spawner     \* spawn_tasks: the device's queue_depth, the loop's tag, the task table

rvars == <<unit, parts, emitted, exhausted, calls, request>>
wvars == <<rt, live, tasks, sq, inflight, cq, mailbox, entry_keys,
           file_indexes, chunks, descs, delivered, faults>>
fvars == <<chunk_dirs, chunk_files, callers, written, interrupts>>
svars == <<sup, ctrl_log, signal_pending, worker_threads, ctrl_ring>>
cvars == <<byte_unit, overflow_checks, config_file, cli, cli_runs>>
pvars == <<spawner>>
vars == <<rvars, wvars, fvars, svars, cvars, pvars>>
notworker == <<rvars, fvars, svars, cvars, pvars>>
notrouter == <<wvars, fvars, svars, cvars, pvars>>
notchunk == <<rvars, wvars, svars, cvars, pvars>>
notsupervisor == <<rvars, wvars, fvars, cvars, pvars>>
notconfig == <<rvars, wvars, fvars, svars, pvars>>
notspawner == <<rvars, wvars, fvars, svars, cvars>>

(***************************************************************************)
(* Bounds of the model.                                                    *)
(***************************************************************************)
MaxChunkSectors == 5
MaxStartSector == 6
MaxNrSectors == 4
MaxParts == 5
MaxRequests == 2
MaxFaults == 2
MaxCallers == 2
MaxCalls == 2
MaxInterrupts == 1
MaxHwQueues == 2
MaxCliRuns == 3
MaxSizeBytes == 1073741824

(***************************************************************************)
(* Integer helpers.                                                        *)
(***************************************************************************)
Min(a, b) == IF a < b THEN a ELSE b

\* x << 9
Shl9(x) == x * 512

\* x as u32, for a value counted in multiples of s: 2^32 is 4 * (2^30 / s) such
\* multiples.  At s = 1 every integer of the model is below 2^31 and keeps its
\* value.
AsU32(x, s) == IF s = 1 THEN x ELSE x % (4 * (1073741824 \div s))

(***************************************************************************)
(* The request router, src/src/parts.rs.                                   *)
(***************************************************************************)
\* parts_for_event: the iterator over the parts of a descriptor.
parts_for_event(config, desc) ==
    [chunk_size   |-> config.chunk_size \div 512,
     start_sector |-> desc.start_sector,
     nr_sectors   |-> desc.nr_sectors,
     buf_offset   |-> 0]

\* Parts::next, the values it computes from the iterator p.
start_within_chunk(p) == p.start_sector % p.chunk_size
left_in_chunk(p) == AsU32(p.chunk_size - start_within_chunk(p), unit)

to_read_from_chunk(p) == Min(left_in_chunk(p), p.nr_sectors)

\* The Part returned by next() (the iterator has sectors left).
NextPart(p) ==
    [file_num     |-> AsU32(p.start_sector \div p.chunk_size, 1),
     start_sector |-> start_within_chunk(p),
     nr_sectors   |-> to_read_from_chunk(p),
     buf_offset   |-> p.buf_offset]

\* (mutant: buf_offset is not advanced)
BufOffsetStuck(p) ==
    [p EXCEPT !.start_sector = p.start_sector + to_read_from_chunk(p),
              !.nr_sectors   = p.nr_sectors - to_read_from_chunk(p)]

\* The iterator after next() returned a part.
Advance(p) ==
    [p EXCEPT !.start_sector = p.start_sector + to_read_from_chunk(p),
              !.nr_sectors   = p.nr_sectors - to_read_from_chunk(p),
              !.buf_offset   = p.buf_offset + to_read_from_chunk(p)]

\* All the parts of an iterator, as the map/collect of the task consumes them.
\* n caps the number of parts taken.
RECURSIVE CollectParts(_, _)
CollectParts(p, n) ==
    IF p.nr_sectors = 0 \/ n = 0 THEN <<>>
    ELSE <<NextPart(p)>> \o CollectParts(Advance(p), n - 1)

(***************************************************************************)
(* Constants of the driver interface and of libc that the code reads.      *)
(***************************************************************************)
UBLK_IO_OP_READ == 0
UBLK_IO_OP_WRITE == 1
UBLK_IO_OP_FLUSH == 2
UBLK_IO_OP_DISCARD == 3
UBLK_IO_OP_WRITE_ZEROES == 5
UBLK_IO_F_FUA == 8192
UBLK_IO_F_NOUNMAP == 32768
EINTR == 4
EIO == 5
ENODEV == 19
EINVAL == 22
ENOSPC == 28
EEXIST == 17
ETIME == 62
MiB == 1048576
U64Units == 16777216
RWF_DSYNC == 2
FALLOC_FL_KEEP_SIZE == 1
FALLOC_FL_PUNCH_HOLE == 2
FALLOC_FL_ZERO_RANGE == 16
UBLK_IO_RES_ABORT == -ENODEV
UBLKC_FD_IDX == 0

\* x & m for a mask m of one bit.
BitAnd(x, m) == IF (x \div m) % 2 = 1 THEN m ELSE 0

\* ublksrv_io_desc::op and ::flags
DescOp(desc) == desc.op_flags % 256
DescFlags(desc) == desc.op_flags \div 256

(***************************************************************************)
(* The worker's configuration: the device info and the repository config.  *)
(***************************************************************************)
QueueDepth == 2
MaxIoBufBytes == 1048576
PageSize == 4096
ChunkSize == 33554432
QueueId == 0

Tags == 0..(QueueDepth - 1)
Config == [chunk_size |-> ChunkSize]

\* create_ring: the submission queue holds 3 * queue_depth entries.
SqEntries == QueueDepth * 3

\* checked_next_multiple_of
NextMultipleOf(x, m) == ((x + m - 1) \div m) * m

(***************************************************************************)
(* The buffer arena, src/src/io_buffers.rs.  Addresses are relative to the *)
(* allocation's pointer.                                                   *)
(***************************************************************************)
elem_size == NextMultipleOf(MaxIoBufBytes, PageSize)
get_buf(tag) == elem_size * tag
get_buf_addr(tag) == get_buf(tag)
get_buf_with_offset(tag, buf_offset) == get_buf(tag) + Shl9(buf_offset)
get_buf_with_offsets(tag, buf_offset, curr_offset) ==
    get_buf_with_offset(tag, buf_offset) + curr_offset

(***************************************************************************)
(* Submission entries, src/src/sqes.rs.  An entry is a record of the       *)
(* fields the opcodes use; req is not part of the entry: it numbers the    *)
(* driver request of the tag the entry was built for.                      *)
(***************************************************************************)
BlankEntry ==
    [opcode |-> "Nop", user_data |-> 0, fd |-> 0, addr |-> 0, len |-> 0,
     offset |-> 0, rw_flags |-> 0, mode |-> 0,
     cmd_op |-> "", cmd_tag |-> 0, cmd_q_id |-> 0, cmd_result |-> 0, req |-> 0]

create_io_cmd_sqe(fd, op, cmd) ==
    [BlankEntry EXCEPT !.opcode = "UringCmd16", !.fd = fd, !.cmd_op = op,
                       !.cmd_tag = cmd.tag, !.cmd_q_id = cmd.q_id,
                       !.cmd_result = cmd.result, !.addr = cmd.addr]

create_fetch_req_sqe(fd, tag) ==
    create_io_cmd_sqe(fd, "UBLK_U_IO_FETCH_REQ",
        [tag |-> tag, q_id |-> QueueId, result |-> 0, addr |-> get_buf_addr(tag)])

create_fetch_req_commit_sqe(fd, tag, result) ==
    create_io_cmd_sqe(fd, "UBLK_U_IO_COMMIT_AND_FETCH_REQ",
        [tag |-> tag, q_id |-> QueueId, result |-> result, addr |-> get_buf_addr(tag)])

\* (mutant: FUA is looked for in op_flags >> 8)
FuaFlagsFromShifted(desc) ==
    IF BitAnd(desc.op_flags \div 256, UBLK_IO_F_FUA) # 0 THEN RWF_DSYNC ELSE 0

fua_flags(desc) ==
    IF BitAnd(desc.op_flags, UBLK_IO_F_FUA) # 0 THEN RWF_DSYNC ELSE 0

\* (mutant: the file offset is not advanced by curr_offset)
RwSqeKeepsOffset(tag, op, file_index, part, desc, curr_offset) ==
    [BlankEntry EXCEPT
        !.opcode = IF op = UBLK_IO_OP_READ THEN "Read" ELSE "Write",
        !.fd = file_index,
        !.addr = get_buf_with_offsets(tag, part.buf_offset, curr_offset),
        !.len = Shl9(part.nr_sectors) - curr_offset,
        !.offset = Shl9(part.start_sector),
        !.rw_flags = IF op = UBLK_IO_OP_READ THEN 0 ELSE fua_flags(desc)]

create_rw_sqe_with_offset(tag, op, file_index, part, desc, curr_offset) ==
    [BlankEntry EXCEPT
        !.opcode = IF op = UBLK_IO_OP_READ THEN "Read" ELSE "Write",
        !.fd = file_index,
        !.addr = get_buf_with_offsets(tag, part.buf_offset, curr_offset),
        !.len = Shl9(part.nr_sectors) - curr_offset,
        !.offset = Shl9(part.start_sector) + curr_offset,
        !.rw_flags = IF op = UBLK_IO_OP_READ THEN 0 ELSE fua_flags(desc)]

create_rw_sqe(tag, op, file_index, part, desc) ==
    create_rw_sqe_with_offset(tag, op, file_index, part, desc, 0)

create_flush_sqe(file_index) ==
    [BlankEntry EXCEPT !.opcode = "Fsync", !.fd = file_index]

create_write_zeroes_sqe(file_index, part, desc) ==
    [BlankEntry EXCEPT
        !.opcode = "Fallocate",
        !.fd = file_index,
        !.len = Shl9(part.nr_sectors),
        !.offset = Shl9(part.start_sector),
        !.mode = IF BitAnd(DescFlags(desc), UBLK_IO_F_NOUNMAP) > 0
                 THEN FALLOC_FL_KEEP_SIZE + FALLOC_FL_ZERO_RANGE
                 ELSE FALLOC_FL_KEEP_SIZE + FALLOC_FL_PUNCH_HOLE]

(***************************************************************************)
(* Maps (HashMap) as functions.                                            *)
(***************************************************************************)
EmptyMap == <<>>
MapInsert(m, k, v) == [x \in DOMAIN m \cup {k} |-> IF x = k THEN v ELSE m[x]]
MapRemove(m, k) == [x \in DOMAIN m \ {k} |-> m[x]]

(***************************************************************************)
(* Waiter and Submitter, src/src/runtime.rs.                               *)
(*                                                                         *)
(* A poll of a task runs the task's code up to its next pending await.     *)
(* The code runs on a "world" w: the task's own state w.t and the state it *)
(* shares with the executor and the other tasks (the ring's submission     *)
(* queue w.sq, the entries the kernel holds w.inflight, the mailbox, the   *)
(* file-index table, the chunk files on disk, the descriptor table).       *)
(* w.ret is the value the last call returned, w.err whether it failed.     *)
(***************************************************************************)
None == <<>>
Some(v) == <<v>>

\* Waiter::new
NewWaiter(entry_key) == [entry_key |-> entry_key, result |-> None]

\* Waiter::poll: the waiter and the mailbox after the poll, and what it returned.
WaiterPoll(waiter, mbox) ==
    IF waiter.result # None
    THEN [ready |-> TRUE, result |-> waiter.result[1],
          waiter |-> waiter, mailbox |-> mbox]
    ELSE IF waiter.entry_key \in DOMAIN mbox
    THEN [ready |-> TRUE, result |-> mbox[waiter.entry_key],
          waiter |-> [waiter EXCEPT !.result = Some(mbox[waiter.entry_key])],
          mailbox |-> MapRemove(mbox, waiter.entry_key)]
    ELSE [ready |-> FALSE, result |-> 0, waiter |-> waiter, mailbox |-> mbox]

\* (mutant: the submitter's idx stays as it is)
SubmitEntrySameIdx(w, entry) ==
    LET entry_key == w.t.idx * 256 + w.tag
        e    == [entry EXCEPT !.user_data = entry_key, !.req = w.t.gen]
        full == Cardinality(w.sq) = SqEntries
    IN  [w EXCEPT !.sq = (IF full THEN {} ELSE w.sq) \cup {e},
                  !.inflight = IF full THEN w.inflight \cup w.sq ELSE w.inflight,
                  !.ret = NewWaiter(entry_key),
                  !.last = e]

\* (mutant: an entry that finds the queue full is left out)
SubmitEntryDropsWhenFull(w, entry) ==
    LET entry_key == w.t.idx * 256 + w.tag
        e    == [entry EXCEPT !.user_data = entry_key, !.req = w.t.gen]
        full == Cardinality(w.sq) = SqEntries
    IN  [w EXCEPT !.sq = IF full THEN w.sq ELSE w.sq \cup {e},
                  !.t.idx = w.t.idx + 1,
                  !.ret = NewWaiter(entry_key),
                  !.last = e]

\* Submitter::submit_entry: w.ret is the Waiter of the pushed entry.
submit_entry(w, entry) ==
    LET entry_key == w.t.idx * 256 + w.tag     \* idx << 8 | tag
        e    == [entry EXCEPT !.user_data = entry_key, !.req = w.t.gen]
        full == Cardinality(w.sq) = SqEntries
    IN  [w EXCEPT !.sq = (IF full THEN {} ELSE w.sq) \cup {e},
                  !.inflight = IF full THEN w.inflight \cup w.sq ELSE w.inflight,
                  !.t.idx = w.t.idx + 1,
                  !.ret = NewWaiter(entry_key),
                  !.last = e]

(***************************************************************************)
(* The per-tag task, src/src/task.rs.                                      *)
(***************************************************************************)
ZeroDesc == [op_flags |-> 0, start_sector |-> 0, nr_sectors |-> 0]

\* A task before its first poll.  gen, committed, ncommit, first_fetch and the
\* subs/results of the entries record what the task did; the code does not read
\* them.
NewTask ==
    [pc |-> "start", idx |-> 1, waiter |-> NewWaiter(0), desc |-> ZeroDesc,
     entries |-> <<>>, cur |-> 0, current |-> 0, result_all |-> 0,
     outcome |-> "running",
     gen |-> 0, committed |-> None, ncommit |-> 0, first_fetch |-> None,
     opened |-> {}]

\* (mutant: the table is not looked up before the chunk is opened)
OpenWithoutLookup(w, file_index) ==
    LET idx == Cardinality(DOMAIN w.file_indexes) + 1
    IN  [w EXCEPT !.chunks = w.chunks \cup {file_index},
                  !.file_indexes = MapInsert(w.file_indexes, file_index, idx),
                  !.t.opened = w.t.opened \cup {file_index},
                  !.ret = idx]

\* Task::open_or_create_cached: w.ret is the fixed-file slot, w.err is set when
\* opening the chunk or registering it failed (w.oracle decides, once).
open_or_create_cached(w, file_index) ==
    IF file_index \in DOMAIN w.file_indexes
    THEN [w EXCEPT !.ret = w.file_indexes[file_index]]
    ELSE IF w.oracle = "open_err"
    THEN [w EXCEPT !.err = TRUE, !.oracle = "ok"]
    ELSE IF w.oracle = "register_err"
    THEN [w EXCEPT !.err = TRUE, !.oracle = "ok",
                   !.chunks = w.chunks \cup {file_index},
                   !.t.opened = w.t.opened \cup {file_index}]
    ELSE LET idx == Cardinality(DOMAIN w.file_indexes) + 1
         IN  [w EXCEPT !.chunks = w.chunks \cup {file_index},
                       !.file_indexes = MapInsert(w.file_indexes, file_index, idx),
                       !.t.opened = w.t.opened \cup {file_index},
                       !.ret = idx]

\* The sqe of one part of a request of the given op.
PartSqe(tag, op, file_index, part, desc) ==
    IF op = UBLK_IO_OP_FLUSH THEN create_flush_sqe(file_index)
    ELSE IF op = UBLK_IO_OP_WRITE_ZEROES
    THEN create_write_zeroes_sqe(file_index, part, desc)
    ELSE create_rw_sqe(tag, op, file_index, part, desc)

\* (mutant: only the first part's operation is submitted before the await)
SubmitPartsFirstOnly(w, ps, op) ==
    IF ps = <<>> \/ w.err THEN w
    ELSE LET part == Head(ps)
             w1   == open_or_create_cached(w, part.file_num)
         IN  IF w1.err THEN w1
             ELSE LET w2 == submit_entry(w1,
                               PartSqe(w.tag, op, w1.ret, part, w.t.desc))
                      entry == [part |-> part, file_index |-> w1.ret,
                                waiter |-> w2.ret,
                                subs |-> <<w2.last>>, results |-> <<>>]
                  IN  [w2 EXCEPT !.t.entries = Append(w2.t.entries, entry)]

\* (mutant: the entries are collected last part first)
RECURSIVE SubmitPartsLastFirst(_, _, _)
SubmitPartsLastFirst(w, ps, op) ==
    IF ps = <<>> \/ w.err THEN w
    ELSE LET part == Head(ps)
             w1   == open_or_create_cached(w, part.file_num)
         IN  IF w1.err THEN w1
             ELSE LET w2 == submit_entry(w1,
                               PartSqe(w.tag, op, w1.ret, part, w.t.desc))
                      entry == [part |-> part, file_index |-> w1.ret,
                                waiter |-> w2.ret,
                                subs |-> <<w2.last>>, results |-> <<>>]
                  IN  SubmitPartsLastFirst(
                          [w2 EXCEPT !.t.entries = <<entry>> \o w2.t.entries],
                          Tail(ps), op)

\* The map over the parts in process_*_request: each part's chunk is looked up
\* or created, its entry built and submitted; the first failure ends the map.
\* The entries collected so far are in w.t.entries.
RECURSIVE SubmitParts(_, _, _)
SubmitParts(w, ps, op) ==
    IF ps = <<>> \/ w.err THEN w
    ELSE LET part == Head(ps)
             w1   == open_or_create_cached(w, part.file_num)
         IN  IF w1.err THEN w1
             ELSE LET w2 == submit_entry(w1,
                               PartSqe(w.tag, op, w1.ret, part, w.t.desc))
                      entry == [part |-> part, file_index |-> w1.ret,
                                waiter |-> w2.ret,
                                subs |-> <<w2.last>>, results |-> <<>>]
                  IN  SubmitParts(
                          [w2 EXCEPT !.t.entries = Append(w2.t.entries, entry)],
                          Tail(ps), op)

\* Task::send_fetch_req, up to its await.
send_fetch_req(w) ==
    LET w1 == submit_entry(w, create_fetch_req_sqe(UBLKC_FD_IDX, w.tag))
    IN  [w1 EXCEPT !.t.waiter = w1.ret, !.t.pc = "fetch_await"]

\* (mutant: the result is committed and the next request fetched by two commands)
CommitThenFetch(w, result) ==
    LET w1 == submit_entry(w,
                  create_fetch_req_commit_sqe(UBLKC_FD_IDX, w.tag, result))
        w2 == submit_entry(w1, create_fetch_req_sqe(UBLKC_FD_IDX, w.tag))
    IN  [w2 EXCEPT !.t.waiter = w2.ret, !.t.pc = "commit_await",
                   !.t.committed = Some(result), !.t.ncommit = w.t.ncommit + 1]

\* Task::send_commit_fetch_req, up to its await.
send_commit_fetch_req(w, result) ==
    LET w1 == submit_entry(w,
                  create_fetch_req_commit_sqe(UBLKC_FD_IDX, w.tag, result))
    IN  [w1 EXCEPT !.t.waiter = w1.ret, !.t.pc = "commit_await",
                   !.t.committed = Some(result), !.t.ncommit = w.t.ncommit + 1]

\* (mutant: an Err of process_request ends the task)
CommitErrEndsTask(w, ok, res) ==
    IF ok THEN send_commit_fetch_req(w, res)
    ELSE [w EXCEPT !.t.pc = "done", !.t.outcome = "err"]

\* Task::run, the match on process_request's value: Ok(res) is committed as it
\* is, Err as -EIO.
commit_result(w, ok, res) ==
    IF ok THEN send_commit_fetch_req(w, res) ELSE send_commit_fetch_req(w, -EIO)

\* (mutant: a request without a part is reported as failed)
ProcessRequestEmptyFails(w) ==
    LET desc == w.descs[w.tag]
        op   == DescOp(desc)
        w0   == [w EXCEPT !.t.desc = desc, !.t.gen = w.t.gen + 1,
                          !.t.entries = <<>>, !.t.cur = 1, !.t.current = 0,
                          !.t.result_all = 0, !.t.opened = {}, !.err = FALSE]
    IN  IF op \in {UBLK_IO_OP_READ, UBLK_IO_OP_WRITE, UBLK_IO_OP_FLUSH,
                   UBLK_IO_OP_WRITE_ZEROES}
        THEN LET ps == CollectParts(parts_for_event(Config, desc), desc.nr_sectors)
                 w1 == SubmitParts(w0, ps, op)
             IN  IF w1.err \/ w1.t.entries = <<>>
                 THEN commit_result([w1 EXCEPT !.err = FALSE], FALSE, 0)
                 ELSE [w1 EXCEPT !.t.pc = "part_await"]
        ELSE commit_result(w0, FALSE, 0)

\* Task::process_request, up to the first await of the request (or, when the
\* request awaits nothing, up to the await of its commit).
process_request(w) ==
    LET desc == w.descs[w.tag]
        op   == DescOp(desc)
        w0   == [w EXCEPT !.t.desc = desc, !.t.gen = w.t.gen + 1,
                          !.t.entries = <<>>, !.t.cur = 1, !.t.current = 0,
                          !.t.result_all = 0, !.t.opened = {}, !.err = FALSE]
    IN  IF op \in {UBLK_IO_OP_READ, UBLK_IO_OP_WRITE, UBLK_IO_OP_FLUSH,
                   UBLK_IO_OP_WRITE_ZEROES}
        THEN LET ps == CollectParts(parts_for_event(Config, desc), desc.nr_sectors)
                 w1 == SubmitParts(w0, ps, op)
             IN  IF w1.err THEN commit_result([w1 EXCEPT !.err = FALSE], FALSE, 0)
                 ELSE IF w1.t.entries = <<>> THEN commit_result(w1, TRUE, 0)
                 ELSE [w1 EXCEPT !.t.pc = "part_await"]
        ELSE commit_result(w0, FALSE, 0)

\* The loops over the entries in process_rw_request, process_flush_request and
\* process_write_zeroes_request: what the task does with the result of the
\* entry it awaited.
NextEntry(w) ==
    IF w.t.cur = Len(w.t.entries)
    THEN commit_result(w, TRUE, w.t.result_all)
    ELSE [w EXCEPT !.t.cur = w.t.cur + 1, !.t.current = 0]

Resubmit(w, sqe) ==
    LET w1 == submit_entry(w, sqe)
    IN  [w1 EXCEPT !.t.entries[w.t.cur].waiter = w1.ret,
                   !.t.entries[w.t.cur].subs = Append(@, w1.last)]

\* (mutant: a positive result of any size finishes the part)
RwResultNoRetry(w, result) ==
    IF result > 0
    THEN NextEntry([w EXCEPT !.t.current = result,
                             !.t.result_all = w.t.result_all + result])
    ELSE IF result # -EINTR
    THEN commit_result(w, TRUE, result)
    ELSE Resubmit(w, create_rw_sqe_with_offset(
                        w.tag, DescOp(w.t.desc), w.t.entries[w.t.cur].file_index,
                        w.t.entries[w.t.cur].part, w.t.desc, w.t.current))

rw_result(w, result) ==
    LET e       == w.t.entries[w.t.cur]
        op      == DescOp(w.t.desc)
        current == IF result > 0 THEN w.t.current + result ELSE w.t.current
        w1      == [w EXCEPT !.t.current = current]
    IN  IF result > 0 /\ current = Shl9(e.part.nr_sectors)
        THEN NextEntry([w1 EXCEPT !.t.result_all = w.t.result_all + current])
        ELSE IF result < 0 /\ result # -EINTR
        THEN commit_result(w1, TRUE, result)
        ELSE Resubmit(w1, create_rw_sqe_with_offset(
                              w.tag, op, e.file_index, e.part, w.t.desc, current))

\* (mutant: an interrupted fsync counts as done)
FlushResultNoRetry(w, result) ==
    IF result = 0 \/ result = -EINTR THEN NextEntry(w)
    ELSE commit_result(w, TRUE, result)

flush_result(w, result) ==
    LET e == w.t.entries[w.t.cur]
    IN  IF result = 0 THEN NextEntry(w)
        ELSE IF result < 0 /\ result # -EINTR
        THEN commit_result(w, TRUE, result)
        ELSE Resubmit(w, create_flush_sqe(e.file_index))

write_zeroes_result(w, result) ==
    LET e == w.t.entries[w.t.cur]
    IN  IF result = 0 THEN NextEntry(w)
        ELSE IF result < 0 /\ result # -EINTR
        THEN commit_result(w, TRUE, result)
        ELSE Resubmit(w, create_write_zeroes_sqe(e.file_index, e.part, w.t.desc))

\* (mutant: a failed part is reported as -EIO whatever its result)
PartResultReportsEio(w, result) ==
    LET op == DescOp(w.t.desc)
        w1 == [w EXCEPT !.t.entries[w.t.cur].results = Append(@, result)]
    IN  IF result < 0 /\ result # -EINTR THEN commit_result(w1, TRUE, -EIO)
        ELSE IF op = UBLK_IO_OP_FLUSH THEN flush_result(w1, result)
        ELSE IF op = UBLK_IO_OP_WRITE_ZEROES THEN write_zeroes_result(w1, result)
        ELSE rw_result(w1, result)

part_result(w, result) ==
    LET op == DescOp(w.t.desc)
        w1 == [w EXCEPT !.t.entries[w.t.cur].results = Append(@, result)]
    IN  IF op = UBLK_IO_OP_FLUSH THEN flush_result(w1, result)
        ELSE IF op = UBLK_IO_OP_WRITE_ZEROES THEN write_zeroes_result(w1, result)
        ELSE rw_result(w1, result)

\* (mutant: only ABORT ends the task at the initial fetch)
InitialFetchIgnoresError(w, result) ==
    LET w1 == [w EXCEPT !.t.first_fetch = Some(result)]
    IN  IF result = UBLK_IO_RES_ABORT
        THEN [w1 EXCEPT !.t.pc = "done", !.t.outcome = "ok"]
        ELSE [w1 EXCEPT !.t.pc = "process"]

\* Task::run after the initial fetch completed.
initial_fetch_result(w, result) ==
    LET w1 == [w EXCEPT !.t.first_fetch = Some(result)]
    IN  IF result < 0
        THEN IF result = UBLK_IO_RES_ABORT
             THEN [w1 EXCEPT !.t.pc = "done", !.t.outcome = "ok"]
             ELSE [w1 EXCEPT !.t.pc = "done", !.t.outcome = "err"]
        ELSE [w1 EXCEPT !.t.pc = "process"]

\* (mutant: every negative result of COMMIT_AND_FETCH ends the task)
CommitFetchErrorEnds(w, result) ==
    IF result < 0
    THEN [w EXCEPT !.t.pc = "done",
                   !.t.outcome = IF result = UBLK_IO_RES_ABORT THEN "ok" ELSE "err"]
    ELSE [w EXCEPT !.t.pc = "process"]

\* Task::run after a COMMIT_AND_FETCH completed.
commit_fetch_result(w, result) ==
    IF result = UBLK_IO_RES_ABORT
    THEN [w EXCEPT !.t.pc = "done", !.t.outcome = "ok"]
    ELSE [w EXCEPT !.t.pc = "process"]

\* One poll of the task's future: Task::run from where it stands to its next
\* pending await, or to its end.
RECURSIVE poll_task(_)
poll_task(w) ==
    CASE w.t.pc = "start" -> poll_task(send_fetch_req(w))
      [] w.t.pc = "process" -> poll_task(process_request(w))
      [] w.t.pc \in {"fetch_await", "commit_await"} ->
            LET p == WaiterPoll(w.t.waiter, w.mailbox)
                w1 == [w EXCEPT !.mailbox = p.mailbox, !.t.waiter = p.waiter]
            IN  IF ~p.ready THEN w
                ELSE IF w.t.pc = "fetch_await"
                THEN poll_task(initial_fetch_result(w1, p.result))
                ELSE poll_task(commit_fetch_result(w1, p.result))
      [] w.t.pc = "part_await" ->
            LET p == WaiterPoll(w.t.entries[w.t.cur].waiter, w.mailbox)
                w1 == [w EXCEPT !.mailbox = p.mailbox,
                                !.t.entries[w.t.cur].waiter = p.waiter]
            IN  IF ~p.ready THEN w ELSE poll_task(part_result(w1, p.result))
      [] OTHER -> w

\* Future::poll on the task's future.  A future that has returned Ready is not
\* to be polled again: an async fn that is resumed after it has completed
\* panics.
poll(w) ==
    IF w.t.pc = "done" THEN [w EXCEPT !.t.outcome = "resumed"] ELSE poll_task(w)

(***************************************************************************)
(* The executor, src/src/runtime.rs, and the worker that builds it,        *)
(* src/src/io_worker.rs.                                                   *)
(***************************************************************************)
\* The state a poll works on, and the worker's state after the poll.
World(tag, oracle) ==
    [tag |-> tag, t |-> tasks[tag], sq |-> sq, inflight |-> inflight,
     mailbox |-> mailbox, file_indexes |-> file_indexes, chunks |-> chunks,
     descs |-> descs, oracle |-> oracle, err |-> FALSE, ret |-> 0,
     last |-> BlankEntry]

\* (mutant: a future that is Ready stays in the table)
PolledAndKept(w) ==
    /\ tasks' = [tasks EXCEPT ![w.tag] = w.t]
    /\ live' = live
    /\ sq' = w.sq
    /\ inflight' = w.inflight
    /\ mailbox' = w.mailbox
    /\ file_indexes' = w.file_indexes
    /\ chunks' = w.chunks

\* Runtime::run_all_tasks / run_tasks: poll the future of tag; a future that is
\* Ready is removed from the table.
Polled(w) ==
    /\ tasks' = [tasks EXCEPT ![w.tag] = w.t]
    /\ live' = IF w.t.pc = "done" THEN live \ {w.tag} ELSE live
    /\ sq' = w.sq
    /\ inflight' = w.inflight
    /\ mailbox' = w.mailbox
    /\ file_indexes' = w.file_indexes
    /\ chunks' = w.chunks

\* The first poll of every task: each submits its FETCH_REQ (the order of the
\* tags does not show: the entries are only pushed).
RECURSIVE FirstPolls(_, _, _)
FirstPolls(ts, tks, q) ==
    IF ts = {} THEN [tasks |-> tks, sq |-> q]
    ELSE LET tag == CHOOSE x \in ts : TRUE
             w == poll([World(tag, "ok") EXCEPT !.sq = q])
         IN  FirstPolls(ts \ {tag}, [tks EXCEPT ![tag] = w.t], w.sq)

WorkerInit ==
    /\ rt = "start"
    /\ live = Tags
    /\ tasks = [tag \in Tags |-> NewTask]
    /\ sq = {}
    /\ inflight = {}
    /\ cq = {}
    /\ mailbox = EmptyMap
    /\ entry_keys = {}
    /\ file_indexes = EmptyMap
    /\ chunks = {}
    /\ descs = [tag \in Tags |-> ZeroDesc]
    /\ delivered = 0
    /\ faults = 0

\* Runtime::run, its call of run_all_tasks.
RunAllTasks ==
    /\ rt = "start"
    /\ LET r == FirstPolls(live, tasks, sq)
       IN  /\ tasks' = r.tasks
           /\ sq' = r.sq
           /\ live' = {tag \in live : r.tasks[tag].pc # "done"}
    /\ rt' = "wait"
    /\ UNCHANGED <<inflight, cq, mailbox, entry_keys, file_indexes, chunks,
                   descs, delivered, faults, notworker>>

\* (mutant: run returns as soon as a task has failed)
RunReturnsAfterFailure ==
    /\ rt = "wait"
    /\ live = {} \/ \E tag \in Tags : tasks[tag].outcome = "err"
    /\ rt' = "returned"
    /\ UNCHANGED <<live, tasks, sq, inflight, cq, mailbox, entry_keys,
                   file_indexes, chunks, descs, delivered, faults, notworker>>

\* Runtime::run returns once no task remains.
RunReturns ==
    /\ rt = "wait"
    /\ live = {}
    /\ rt' = "returned"
    /\ UNCHANGED <<live, tasks, sq, inflight, cq, mailbox, entry_keys,
                   file_indexes, chunks, descs, delivered, faults, notworker>>

\* Runtime::submit_and_wait: the pushed entries go to the kernel and the thread
\* blocks until a completion is there.
SubmitAndWait ==
    /\ rt = "wait"
    /\ live # {}
    /\ inflight' = inflight \cup sq
    /\ sq' = {}
    /\ rt' = "blocked"
    /\ UNCHANGED <<live, tasks, cq, mailbox, entry_keys, file_indexes, chunks,
                   descs, delivered, faults, notworker>>

\* Runtime::process_entries, after submit_and_wait returned, and the snapshot of
\* the mailbox keys that run_tasks takes.
ProcessEntries ==
    /\ rt = "blocked"
    /\ cq # {}
    /\ LET mb == [k \in DOMAIN mailbox \cup {c.user_data : c \in cq} |->
                    IF \E c \in cq : c.user_data = k
                    THEN (CHOOSE c \in cq : c.user_data = k).result
                    ELSE mailbox[k]]
       IN  /\ mailbox' = mb
           /\ entry_keys' = DOMAIN mb
    /\ cq' = {}
    /\ rt' = "run_tasks"
    /\ UNCHANGED <<live, tasks, sq, inflight, file_indexes, chunks, descs,
                   delivered, faults, notworker>>

\* (mutant: run_tasks polls the task of the key's tag whether or not it is in
\* the table)
RunTasksPollsAny(entry_key, oracle) ==
    /\ rt = "run_tasks"
    /\ entry_key \in entry_keys
    /\ oracle # "ok" => faults < MaxFaults
    /\ LET w == poll(World(entry_key % 256, oracle))
       IN  /\ oracle # "ok" => w.oracle = "ok"
           /\ tasks' = [tasks EXCEPT ![w.tag] = w.t]
           /\ live' = IF w.t.pc = "done" THEN live \ {w.tag} ELSE live
           /\ sq' = w.sq
           /\ inflight' = w.inflight
           /\ mailbox' = w.mailbox
           /\ file_indexes' = w.file_indexes
           /\ chunks' = w.chunks
           /\ faults' = IF oracle # "ok" THEN faults + 1 ELSE faults
    /\ entry_keys' = entry_keys \ {entry_key}
    /\ rt' = IF entry_keys' = {} THEN "wait" ELSE "run_tasks"
    /\ UNCHANGED <<cq, descs, delivered, notworker>>

\* (mutant: run_tasks polls for one key of the snapshot and leaves the others)
RunTasksOneKey(entry_key, oracle) ==
    /\ rt = "run_tasks"
    /\ entry_key \in entry_keys
    /\ oracle # "ok" => faults < MaxFaults
    /\ LET tag == entry_key % 256
       IN  IF tag \in live
           THEN LET w == poll(World(tag, oracle))
                IN  /\ oracle # "ok" => w.oracle = "ok"
                    /\ Polled(w)
                    /\ faults' = IF oracle # "ok" THEN faults + 1 ELSE faults
           ELSE /\ oracle = "ok"
                /\ UNCHANGED <<tasks, live, sq, inflight, mailbox, file_indexes,
                               chunks, faults>>
    /\ entry_keys' = {}
    /\ rt' = "wait"
    /\ UNCHANGED <<cq, descs, delivered, notworker>>

\* Runtime::run_tasks, one turn of its loop: the task that the key's low byte
\* names is polled if it is still in the table.  The keys come in the order of
\* the HashMap, which is any order.  oracle is what the file system and the
\* kernel answer if the poll opens and registers a chunk.
RunTasksPoll(entry_key, oracle) ==
    /\ rt = "run_tasks"
    /\ entry_key \in entry_keys
    /\ oracle # "ok" => faults < MaxFaults
    /\ LET tag == entry_key % 256
       IN  IF tag \in live
           THEN LET w == poll(World(tag, oracle))
                IN  /\ oracle # "ok" => w.oracle = "ok"
                    /\ Polled(w)
                    /\ faults' = IF oracle # "ok" THEN faults + 1 ELSE faults
           ELSE /\ oracle = "ok"
                /\ UNCHANGED <<tasks, live, sq, inflight, mailbox, file_indexes,
                               chunks, faults>>
    /\ entry_keys' = entry_keys \ {entry_key}
    /\ rt' = IF entry_keys' = {} THEN "wait" ELSE "run_tasks"
    /\ UNCHANGED <<cq, descs, delivered, notworker>>

(***************************************************************************)
(* The kernel: the backing files and the ublk driver complete the entries  *)
(* they hold, in any order, while the worker is blocked in the ring.       *)
(***************************************************************************)
IsCmd(e) == e.opcode = "UringCmd16"
IsRw(e) == e.opcode \in {"Read", "Write"}
IsBacking(e) == e.opcode \in {"Read", "Write", "Fsync", "Fallocate"}
TagOf(e) == e.user_data % 256

Complete(e, result) ==
    /\ inflight' = inflight \ {e}
    /\ cq' = cq \cup {[user_data |-> e.user_data, result |-> result]}
    /\ UNCHANGED <<rt, live, tasks, sq, mailbox, entry_keys, file_indexes,
                   chunks, notworker>>

\* The requests the driver hands out: at most max_sectors long.
DescChoices ==
    { [op_flags |-> UBLK_IO_OP_READ, start_sector |-> 65535, nr_sectors |-> 2],
      [op_flags |-> UBLK_IO_OP_WRITE + UBLK_IO_F_FUA, start_sector |-> 0, nr_sectors |-> 1],
      [op_flags |-> UBLK_IO_OP_WRITE, start_sector |-> 0, nr_sectors |-> 1],
      [op_flags |-> UBLK_IO_OP_READ + UBLK_IO_F_FUA, start_sector |-> 0, nr_sectors |-> 1],
      [op_flags |-> UBLK_IO_OP_FLUSH, start_sector |-> 65535, nr_sectors |-> 2],
      [op_flags |-> UBLK_IO_OP_WRITE_ZEROES + UBLK_IO_F_NOUNMAP, start_sector |-> 0, nr_sectors |-> 1],
      [op_flags |-> UBLK_IO_OP_DISCARD, start_sector |-> 0, nr_sectors |-> 1] }

\* A FETCH_REQ or COMMIT_AND_FETCH_REQ completes with the next request of its tag.
DriverDeliver(e, d) ==
    /\ rt = "blocked"
    /\ e \in inflight /\ IsCmd(e)
    /\ delivered < MaxRequests
    /\ descs' = [descs EXCEPT ![e.cmd_tag] = d]
    /\ delivered' = delivered + 1
    /\ Complete(e, 0)
    /\ UNCHANGED faults

\* The device is being stopped: the command completes with ABORT.
DriverAbort(e) ==
    /\ rt = "blocked"
    /\ e \in inflight /\ IsCmd(e)
    /\ Complete(e, UBLK_IO_RES_ABORT)
    /\ UNCHANGED <<descs, delivered, faults>>

\* The driver refuses the command.
DriverReject(e) ==
    /\ rt = "blocked"
    /\ e \in inflight /\ IsCmd(e)
    /\ faults < MaxFaults
    /\ faults' = faults + 1
    /\ Complete(e, -EINVAL)
    /\ UNCHANGED <<descs, delivered>>

\* A backing-file operation completes in full.
OpSucceeds(e) ==
    /\ rt = "blocked"
    /\ e \in inflight /\ IsBacking(e)
    /\ Complete(e, IF IsRw(e) THEN e.len ELSE 0)
    /\ UNCHANGED <<descs, delivered, faults>>

\* A read or write transfers only c of its bytes.
ShortCounts(len) == {c \in {1, len \div 2} : 0 < c /\ c < len}

RwShort(e, c) ==
    /\ rt = "blocked"
    /\ e \in inflight /\ IsRw(e)
    /\ c \in ShortCounts(e.len)
    /\ faults < MaxFaults
    /\ faults' = faults + 1
    /\ Complete(e, c)
    /\ UNCHANGED <<descs, delivered>>

\* A backing-file operation fails with -EINTR, -EIO or -ENOSPC.
OpFails(e, errno) ==
    /\ rt = "blocked"
    /\ e \in inflight /\ IsBacking(e)
    /\ faults < MaxFaults
    /\ faults' = faults + 1
    /\ Complete(e, -errno)
    /\ UNCHANGED <<descs, delivered>>

(***************************************************************************)
(* Chunk materialisation, src/src/util.rs: the workers that call           *)
(* open_or_create_chunk, each step of a call being one system call on the  *)
(* file system they share.                                                 *)
(***************************************************************************)
Callers == 1..MaxCallers

\* The chunk indexes asked for: both are in directory 01.
ChunkIndexes == {1, 257}

\* The offsets a worker writes at: the first and the last sector of a chunk.
WriteOffsets == {0, ChunkSize - 512}

\* build_filepath: chunks/<file_index % 256, in hex>/<file_index>
build_filepath(file_index) == <<"chunks", file_index % 256, file_index>>
Parent(path) == SubSeq(path, 1, Len(path) - 1)

\* mkdir: create_dir_all makes the directory and its missing parents, and takes
\* a directory that exists as made.
mkdir(dirs, subdir) == dirs \cup {SubSeq(subdir, 1, n) : n \in 1..Len(subdir)}

\* (mutant: the file is opened with truncate(true))
OpenTruncating(files, filepath) ==
    MapInsert(files, filepath, [len |-> 0, data |-> {}])

\* OpenOptions read, write, create: the file is created empty if it is not
\* there and is left as it is if it is.
OpenCreate(files, filepath) ==
    IF filepath \in DOMAIN files THEN files
    ELSE MapInsert(files, filepath, [len |-> 0, data |-> {}])

\* libc::ftruncate(fd, size): what lies beyond size is cut, what is added reads
\* as zeroes.
Truncated(f, size) == [len |-> size, data |-> {d \in f.data : d < size}]

NewCaller ==
    [pc |-> "idle", file_index |-> 0, handles |-> {}, ncalls |-> 0,
     result |-> "none", found_data |-> FALSE]

ChunkIdle ==
    /\ chunk_dirs = {}
    /\ chunk_files = EmptyMap
    /\ callers = [c \in Callers |-> NewCaller]
    /\ written = {}
    /\ interrupts = 0

\* A worker calls open_or_create_chunk(config, file_index).
CallOpenOrCreate(c, file_index) ==
    /\ callers[c].pc = "idle"
    /\ callers[c].ncalls < MaxCalls
    /\ callers' = [callers EXCEPT ![c].pc = "mkdir",
                                  ![c].file_index = file_index,
                                  ![c].ncalls = @ + 1,
                                  ![c].result = "none"]
    /\ UNCHANGED <<chunk_dirs, chunk_files, written, interrupts, notchunk>>

\* mkdir(filepath.parent())
Mkdir(c) ==
    /\ callers[c].pc = "mkdir"
    /\ chunk_dirs' = mkdir(chunk_dirs, Parent(build_filepath(callers[c].file_index)))
    /\ callers' = [callers EXCEPT ![c].pc = "open"]
    /\ UNCHANGED <<chunk_files, written, interrupts, notchunk>>

\* OpenOptions::open: it fails if the directory is not there.
Open(c) ==
    /\ callers[c].pc = "open"
    /\ LET filepath == build_filepath(callers[c].file_index)
       IN  IF Parent(filepath) \in chunk_dirs
           THEN /\ chunk_files' = OpenCreate(chunk_files, filepath)
                /\ callers' = [callers EXCEPT ![c].pc = "ftruncate"]
           ELSE /\ callers' = [callers EXCEPT ![c].pc = "idle", ![c].result = "err"]
                /\ UNCHANGED chunk_files
    /\ UNCHANGED <<chunk_dirs, written, interrupts, notchunk>>

\* ftruncate: the system call returns 0 and the call returns the file.
Ftruncate(c) ==
    /\ callers[c].pc = "ftruncate"
    /\ LET filepath == build_filepath(callers[c].file_index)
       IN  /\ chunk_files' = [chunk_files EXCEPT
                                 ![filepath] = Truncated(@, ChunkSize)]
           /\ callers' = [callers EXCEPT
                             ![c].pc = "idle",
                             ![c].result = "ok",
                             ![c].handles = @ \cup {filepath},
                             ![c].found_data = chunk_files[filepath].data # {}]
    /\ UNCHANGED <<chunk_dirs, written, interrupts, notchunk>>

\* ftruncate: the system call fails with EINTR and the loop calls it again.
FtruncateInterrupted(c) ==
    /\ callers[c].pc = "ftruncate"
    /\ interrupts < MaxInterrupts
    /\ interrupts' = interrupts + 1
    /\ UNCHANGED <<chunk_dirs, chunk_files, callers, written, notchunk>>

\* A worker writes a sector of a chunk it holds a file of.
WriteChunk(c, filepath, offset) ==
    /\ callers[c].pc = "idle"
    /\ filepath \in callers[c].handles
    /\ offset + 512 <= chunk_files[filepath].len
    /\ <<filepath, offset>> \notin written
    /\ chunk_files' = [chunk_files EXCEPT ![filepath].data = @ \cup {offset}]
    /\ written' = written \cup {<<filepath, offset>>}
    /\ UNCHANGED <<chunk_dirs, callers, interrupts, notchunk>>

(***************************************************************************)
(* The supervisor, src/src/commands/start.rs: run, from ADD_DEV to         *)
(* DEL_DEV_ASYNC.  Each control command is one step: the command is sent   *)
(* and the step takes the driver's answer.  The worker threads are seen    *)
(* from outside: spawned, running, exited, joined.                         *)
(***************************************************************************)
\* What the driver answers to a control command: a completion with a result,
\* or nothing within the five seconds submit_and_wait gives it.
CtrlAnswers ==
    [cqe : {TRUE}, res : {0, -EEXIST, -EINVAL, 1}]
        \cup {[cqe |-> FALSE, res |-> -ETIME]}

\* The state GET_DEV_INFO reports of a device that exists.
DevStates == {"DEAD", "LIVE", "QUIESCED", "FAIL_IO"}

\* What the poll of the signal fd completes with: POLLIN, or an error.
POLLIN == 1
PollResults == {POLLIN, -EINVAL}

\* (mutant: a command that got no completion in time counts as done)
CtrlOkOrTimedOut(answer) == ~answer.cqe \/ answer.res = 0

\* submit_and_wait: the completion, or an error if there is none in time.
CtrlOk(answer) == answer.cqe /\ answer.res = 0

\* (mutant: every negative result of ADD_DEV is taken for an existing device)
AddDevRecoversOnAnyError(answer) ==
    IF ~answer.cqe THEN "Err"
    ELSE IF answer.res = 0 THEN "NewDevice"
    ELSE IF answer.res < 0 THEN "AttemptRecovery"
    ELSE "Err"

\* send_add_dev_cmd: 0 is a new device, -17 one that exists, the rest an error.
send_add_dev_cmd(answer) ==
    IF ~answer.cqe THEN "Err"
    ELSE IF answer.res = 0 THEN "NewDevice"
    ELSE IF answer.res = -EEXIST THEN "AttemptRecovery"
    ELSE "Err"

\* (mutant: a live device is recovered as well)
RecoverableOrLive(state) == state \in {"QUIESCED", "FAIL_IO", "LIVE"}

\* attempt_recovery: the match on dev_info.state
Recoverable(state) == state \in {"QUIESCED", "FAIL_IO"}

\* (mutant: the device is always started with START_DEV)
AlwaysStartDev(is_new_device) == "START_DEV"

\* send_start_recover_dev_cmd: cmd_op
StartCmdOp(is_new_device) ==
    IF is_new_device THEN "START_DEV" ELSE "END_USER_RECOVERY"

\* (mutant: the loop of start_worker_threads ends after the first thread)
SpawnedOne(spawned, nr_hw_queues) == spawned >= 1

\* start_worker_threads: for i in 0..nr_hw_queues
AllSpawned(spawned, nr_hw_queues) == spawned = nr_hw_queues

Event(ev, res) == [ev |-> ev, res |-> res]
Logged(ev) == \E i \in 1..Len(ctrl_log) : ctrl_log[i].ev = ev
LoggedOk(ev) == \E i \in 1..Len(ctrl_log) : ctrl_log[i] = Event(ev, 0)

Ended == sup.pc \in {"done", "failed", "killed"}

\* run has loaded the configuration, with that many threads, and has opened
\* the control device.
SupervisorStart(threads) ==
    /\ sup = [pc |-> "add_dev", threads |-> threads, is_new_device |-> FALSE,
              add_result |-> "none", dev_state |-> "none",
              nr_hw_queues |-> 0, spawned |-> 0, joined |-> 0,
              blocked |-> FALSE]
    /\ ctrl_log = <<>>
    /\ signal_pending = FALSE
    /\ worker_threads = [q \in 0..(MaxHwQueues - 1) |-> "none"]
    /\ ctrl_ring = {}

SupervisorIdle == SupervisorStart(1)

\* (mutant: a failed step joins the worker threads it has spawned)
FailThenJoin == [sup EXCEPT !.pc = "failed", !.joined = sup.spawned]

Fail == [sup EXCEPT !.pc = "failed"]

\* The control command run is about to send, or is waiting for.
DueCmd ==
    CASE sup.pc = "add_dev" -> "ADD_DEV"
      [] sup.pc = "get_info" -> "GET_DEV_INFO"
      [] sup.pc = "start_recovery" -> "START_USER_RECOVERY"
      [] sup.pc = "set_params" -> "SET_PARAMS"
      [] sup.pc = "spawn" /\ AllSpawned(sup.spawned, sup.nr_hw_queues) ->
            StartCmdOp(sup.is_new_device)
      [] sup.pc = "stop_dev" -> "STOP_DEV"
      [] sup.pc = "join" /\ sup.joined = sup.spawned -> "DEL_DEV_ASYNC"
      [] OTHER -> "none"

\* submit_and_wait: the command is pushed and submitted to the driver.
SubmitCtrlCmd ==
    /\ DueCmd # "none"
    /\ DueCmd \notin ctrl_ring
    /\ ctrl_ring' = ctrl_ring \cup {DueCmd}
    /\ UNCHANGED <<sup, ctrl_log, signal_pending, worker_threads, notsupervisor>>

\* submit_and_wait: the wait for the submitted command is over, and its
\* completion is taken from the ring if there is one.
Wait(cmd, answer) ==
    /\ cmd \in ctrl_ring
    /\ ctrl_ring' = IF answer.cqe THEN ctrl_ring \ {cmd} ELSE ctrl_ring

\* add_new_dev: ADD_DEV for config.threads() queues
AddNewDev(answer) ==
    /\ sup.pc = "add_dev"
    /\ Wait("ADD_DEV", answer)
    /\ ctrl_log' = Append(ctrl_log, Event("ADD_DEV", answer.res))
    /\ LET result == send_add_dev_cmd(answer)
       IN  sup' = [sup EXCEPT
                      !.add_result = result,
                      !.is_new_device = (result = "NewDevice"),
                      !.nr_hw_queues = IF result = "NewDevice" THEN sup.threads ELSE 0,
                      !.pc = CASE result = "NewDevice" -> "set_params"
                               [] result = "AttemptRecovery" -> "get_info"
                               [] OTHER -> "failed"]
    /\ UNCHANGED <<signal_pending, worker_threads, notsupervisor>>

\* attempt_recovery: GET_DEV_INFO and the match on the state it reports; the
\* device has the number of queues it was created with.
GetDevInfo(answer, state, nr_hw_queues) ==
    /\ sup.pc = "get_info"
    /\ Wait("GET_DEV_INFO", answer)
    /\ ctrl_log' = Append(ctrl_log, Event("GET_DEV_INFO", answer.res))
    /\ sup' = IF ~CtrlOk(answer) THEN Fail
              ELSE [sup EXCEPT !.dev_state = state,
                               !.nr_hw_queues = nr_hw_queues,
                               !.pc = IF Recoverable(state) THEN "start_recovery"
                                      ELSE "failed"]
    /\ UNCHANGED <<signal_pending, worker_threads, notsupervisor>>

\* attempt_recovery: START_USER_RECOVERY, and Ok((false, dev_info))
StartRecovery(answer) ==
    /\ sup.pc = "start_recovery"
    /\ Wait("START_USER_RECOVERY", answer)
    /\ ctrl_log' = Append(ctrl_log, Event("START_USER_RECOVERY", answer.res))
    /\ sup' = IF CtrlOk(answer) THEN [sup EXCEPT !.pc = "setup_signals"] ELSE Fail
    /\ UNCHANGED <<signal_pending, worker_threads, notsupervisor>>

\* set_dev_params, for a new device: the queue limits are read, which can fail,
\* and SET_PARAMS is sent.
SetDevParams(limits_ok, answer) ==
    /\ sup.pc = "set_params"
    /\ IF limits_ok
       THEN /\ Wait("SET_PARAMS", answer)
            /\ ctrl_log' = Append(ctrl_log, Event("SET_PARAMS", answer.res))
            /\ sup' = IF CtrlOk(answer) THEN [sup EXCEPT !.pc = "setup_signals"]
                      ELSE Fail
       ELSE /\ "SET_PARAMS" \notin ctrl_ring
            /\ sup' = Fail
            /\ UNCHANGED <<ctrl_log, ctrl_ring>>
    /\ UNCHANGED <<signal_pending, worker_threads, notsupervisor>>

\* setup_signals: SIGINT and SIGTERM are blocked and the signal fd is made.
SetupSignals(ok) ==
    /\ sup.pc = "setup_signals"
    /\ IF ok
       THEN /\ ctrl_log' = Append(ctrl_log, Event("BLOCK_SIGNALS", 0))
            /\ sup' = [sup EXCEPT !.blocked = TRUE, !.pc = "open_ublkc"]
       ELSE /\ sup' = Fail
            /\ UNCHANGED ctrl_log
    /\ UNCHANGED <<signal_pending, worker_threads, ctrl_ring, notsupervisor>>

\* open_ublkc_dev
OpenUblkcDev(ok) ==
    /\ sup.pc = "open_ublkc"
    /\ sup' = IF ok THEN [sup EXCEPT !.pc = "spawn"] ELSE Fail
    /\ UNCHANGED <<ctrl_log, signal_pending, worker_threads, ctrl_ring, notsupervisor>>

\* start_worker_threads: one turn of the loop spawns the thread of queue i.
SpawnWorker(ok) ==
    /\ sup.pc = "spawn"
    /\ ~AllSpawned(sup.spawned, sup.nr_hw_queues)
    /\ IF ok
       THEN /\ ctrl_log' = Append(ctrl_log, Event("SPAWN", sup.spawned))
            /\ worker_threads' = [worker_threads EXCEPT ![sup.spawned] = "running"]
            /\ sup' = [sup EXCEPT !.spawned = @ + 1]
       ELSE /\ sup' = Fail
            /\ UNCHANGED <<ctrl_log, worker_threads>>
    /\ UNCHANGED <<signal_pending, ctrl_ring, notsupervisor>>

\* send_start_recover_dev_cmd, once the loop of start_worker_threads is over
StartRecoverDev(answer) ==
    /\ sup.pc = "spawn"
    /\ AllSpawned(sup.spawned, sup.nr_hw_queues)
    /\ Wait(StartCmdOp(sup.is_new_device), answer)
    /\ ctrl_log' = Append(ctrl_log, Event(StartCmdOp(sup.is_new_device), answer.res))
    /\ sup' = IF CtrlOk(answer) THEN [sup EXCEPT !.pc = "poll"] ELSE Fail
    /\ UNCHANGED <<signal_pending, worker_threads, notsupervisor>>

\* handle_sigint: the poll of the signal fd completes, with POLLIN once a
\* signal is pending or with an error, which is logged; Ok(()) either way.
HandleSigint(res) ==
    /\ sup.pc = "poll"
    /\ res > 0 => signal_pending
    /\ ctrl_log' = Append(ctrl_log, Event("POLL", res))
    /\ sup' = [sup EXCEPT !.pc = "stop_dev"]
    /\ UNCHANGED <<signal_pending, worker_threads, ctrl_ring, notsupervisor>>

\* send_stop_dev_cmd
StopDev(answer) ==
    /\ sup.pc = "stop_dev"
    /\ Wait("STOP_DEV", answer)
    /\ ctrl_log' = Append(ctrl_log, Event("STOP_DEV", answer.res))
    /\ sup' = IF CtrlOk(answer) THEN [sup EXCEPT !.pc = "join"] ELSE Fail
    /\ UNCHANGED <<signal_pending, worker_threads, notsupervisor>>

\* join_worker_threads: join() returns once the thread has ended.
JoinWorker ==
    /\ sup.pc = "join"
    /\ sup.joined < sup.spawned
    /\ worker_threads[sup.joined] = "exited"
    /\ ctrl_log' = Append(ctrl_log, Event("JOIN", sup.joined))
    /\ worker_threads' = [worker_threads EXCEPT ![sup.joined] = "joined"]
    /\ sup' = [sup EXCEPT !.joined = @ + 1]
    /\ UNCHANGED <<signal_pending, ctrl_ring, notsupervisor>>

\* send_del_dev_cmd, once every thread is joined
DelDev(answer) ==
    /\ sup.pc = "join"
    /\ sup.joined = sup.spawned
    /\ Wait("DEL_DEV_ASYNC", answer)
    /\ ctrl_log' = Append(ctrl_log, Event("DEL_DEV_ASYNC", answer.res))
    /\ sup' = IF CtrlOk(answer) THEN [sup EXCEPT !.pc = "done"] ELSE Fail
    /\ UNCHANGED <<signal_pending, worker_threads, notsupervisor>>

\* worker_thread_fn returns: the worker failed to start, crashed, or its
\* tasks have all ended.
WorkerExits(q) ==
    /\ ~Ended
    /\ worker_threads[q] = "running"
    /\ worker_threads' = [worker_threads EXCEPT ![q] = "exited"]
    /\ UNCHANGED <<sup, ctrl_log, signal_pending, ctrl_ring, notsupervisor>>

\* SIGINT or SIGTERM arrives: it stays pending on the signal fd if the signals
\* are blocked, and ends the process if they are not.
Signal ==
    /\ ~Ended
    /\ ~signal_pending
    /\ IF sup.blocked
       THEN /\ signal_pending' = TRUE
            /\ UNCHANGED sup
       ELSE /\ sup' = [sup EXCEPT !.pc = "killed"]
            /\ UNCHANGED signal_pending
    /\ UNCHANGED <<ctrl_log, worker_threads, ctrl_ring, notsupervisor>>

(***************************************************************************)
(* The command line and the configuration file: src/src/cli.rs,            *)
(* src/src/config.rs, src/src/commands/init.rs and expand.rs.  Sizes are   *)
(* u64 byte counts; they are counted in multiples of byte_unit, the byte *)
(* or 2^40 bytes, so that 2^64 bytes are U64Units multiples of the large   *)
(* unit.  Counted in bytes every value of the model is far below 2^64.     *)
(***************************************************************************)
\* The value of an Option that is Some.
Get(o) == o[1]

\* The units: the byte, and 2^40 bytes.
ByteUnits == {"B", "TiB"}

\* x does not fit in a u64.
Overflows(x, u) == u # "B" /\ x >= U64Units

\* 1024 * 1024, 256 MiB, 32 MiB, 4096 and the default chunk size 512 MiB, in
\* units: every non-zero multiple of the large unit is above the minima and is
\* a multiple of 4096.
MinSize(u) == IF u = "B" THEN 256 * MiB ELSE 1
MinChunkSize(u) == IF u = "B" THEN 32 * MiB ELSE 1
Page(u) == IF u = "B" THEN 4096 ELSE 1
DefaultChunkSize == 512 * MiB

\* parse_size: the multiplier of the suffix.  At the large unit every argument
\* is written with the suffix T, which is one unit.
SuffixMul(suffix, u) ==
    IF u # "B" THEN 1
    ELSE CASE suffix \in {"m", "M"} -> MiB
           [] suffix \in {"g", "G"} -> 1024 * MiB
           [] OTHER -> 1

\* parse_size: val * mul in u64.  The product that does not fit panics in a
\* build with overflow checks and wraps in one without.
parse_size(arg, u, checks) ==
    LET product == arg.val * SuffixMul(arg.suffix, u)
    IN  IF Overflows(product, u)
        THEN IF checks THEN [res |-> "panic", v |-> 0]
             ELSE [res |-> "ok", v |-> product % U64Units]
        ELSE [res |-> "ok", v |-> product]

\* u64::checked_add
checked_add(a, b, u) == IF Overflows(a + b, u) THEN None ELSE Some(a + b)

\* u64::checked_next_multiple_of
checked_next_multiple_of(x, m, u) ==
    IF m = 0 THEN None
    ELSE IF x % m = 0 THEN Some(x)
    ELSE checked_add(x, m - (x % m), u)

\* parse_num(..)? as _ for --threads: a u32 cut to u16
AsU16(x) == x % 65536

\* Config::new
NewConfig(dev_id, size, chunk_size, threads, fsuid, fsgid, direct_io) ==
    [version |-> 1, dev_id |-> dev_id, size |-> size, chunk_size |-> chunk_size,
     threads |-> threads, fsuid |-> fsuid, fsgid |-> fsgid, direct_io |-> direct_io]

NoConfig == NewConfig(None, 0, 0, None, None, None, None)

\* parse_init: the flags are parsed, the minima checked, the chunk size
\* rounded up to 4096 and the size up to the chunk size.
parse_init(args, u, checks) ==
    LET size == parse_size(args.size, u, checks)
        chunk_size == IF args.chunk_size = None
                      THEN [res |-> "ok", v |-> DefaultChunkSize]
                      ELSE parse_size(Get(args.chunk_size), u, checks)
        threads == IF args.threads = None THEN None
                   ELSE Some(AsU16(Get(args.threads)))
        rounded_chunk == checked_next_multiple_of(chunk_size.v, Page(u), u)
        rounded_size == IF rounded_chunk = None THEN None
                        ELSE checked_next_multiple_of(size.v, Get(rounded_chunk), u)
    IN  IF size.res = "panic" \/ chunk_size.res = "panic"
        THEN [res |-> "panic", config |-> NoConfig]
        ELSE IF \/ size.v < MinSize(u)
                \/ chunk_size.v < MinChunkSize(u)
                \/ rounded_chunk = None
                \/ rounded_size = None
        THEN [res |-> "err", config |-> NoConfig]
        ELSE [res |-> "ok",
              config |-> NewConfig(args.dev_id, Get(rounded_size), Get(rounded_chunk),
                                   threads, args.fsuid, args.fsgid, None)]

\* A line of the configuration file: the name, and the value as a number or
\* as a word.
NumLine(name, value) == [name |-> name, num |-> value, text |-> ""]
TextLine(name, text) == [name |-> name, num |-> 0, text |-> text]

\* push_opt: the line of a setting that is there
OptLine(name, value) == IF value = None THEN <<>> ELSE <<NumLine(name, Get(value))>>

\* bool::to_string
BoolText(b) == IF b THEN "true" ELSE "false"

\* Config::to_string: version 1, dev-id, size, chunk-size, fsuid, fsgid,
\* direct-io.
to_string(config) ==
    <<NumLine("version", 1)>>
        \o OptLine("dev-id", config.dev_id)
        \o <<NumLine("size", config.size), NumLine("chunk-size", config.chunk_size)>>
        \o OptLine("fsuid", config.fsuid)
        \o OptLine("fsgid", config.fsgid)
        \o (IF config.direct_io = None THEN <<>>
            ELSE <<TextLine("direct-io", BoolText(Get(config.direct_io)))>>)

\* parse_bool
parse_bool(text) ==
    CASE text \in {"1", "on", "true"} -> Some(TRUE)
      [] text \in {"0", "off", "false"} -> Some(FALSE)
      [] OTHER -> None

SettingNames ==
    {"version", "dev-id", "size", "chunk-size", "threads", "fsuid", "fsgid", "direct-io"}

\* read_config_file: the last line of a name is the setting's.
Setting(lines, name) ==
    LET at == {i \in 1..Len(lines) : lines[i].name = name}
    IN  IF at = {} THEN None
        ELSE Some(lines[CHOOSE i \in at : \A j \in at : j <= i])

NumSetting(lines, name) ==
    IF Setting(lines, name) = None THEN None ELSE Some(Get(Setting(lines, name)).num)

\* read_config_file
read_config_file(file) ==
    IF file = None THEN [res |-> "err", config |-> NoConfig]
    ELSE LET lines == Get(file)
             direct_io == IF Setting(lines, "direct-io") = None THEN None
                          ELSE parse_bool(Get(Setting(lines, "direct-io")).text)
         IN  IF \/ \E i \in 1..Len(lines) : lines[i].name \notin SettingNames
                \/ Setting(lines, "direct-io") # None /\ direct_io = None
                \/ NumSetting(lines, "version") = None
                \/ NumSetting(lines, "size") = None
                \/ NumSetting(lines, "chunk-size") = None
             THEN [res |-> "err", config |-> NoConfig]
             ELSE [res |-> "ok",
                   config |-> [version |-> Get(NumSetting(lines, "version")),
                               dev_id |-> NumSetting(lines, "dev-id"),
                               size |-> Get(NumSetting(lines, "size")),
                               chunk_size |-> Get(NumSetting(lines, "chunk-size")),
                               threads |-> NumSetting(lines, "threads"),
                               fsuid |-> NumSetting(lines, "fsuid"),
                               fsgid |-> NumSetting(lines, "fsgid"),
                               direct_io |-> direct_io]]

\* (mutant: the sum and the rounding wrap instead of failing)
ExpandWrapping(config, bytes, u) ==
    IF config.chunk_size = 0 THEN None
    ELSE LET sum == IF u = "B" THEN config.size + bytes
                    ELSE (config.size + bytes) % U64Units
             rounded == IF sum % config.chunk_size = 0 THEN sum
                        ELSE sum + config.chunk_size - (sum % config.chunk_size)
         IN  Some([config EXCEPT
                      !.size = IF u = "B" THEN rounded ELSE rounded % U64Units])

\* Config::expand_size_by_bytes
expand_size_by_bytes(config, bytes, u) ==
    LET sum == checked_add(config.size, bytes, u)
        size == IF sum = None THEN None
                ELSE checked_next_multiple_of(Get(sum), config.chunk_size, u)
    IN  IF size = None THEN None ELSE Some([config EXCEPT !.size = Get(size)])

\* What the last command was given and what came of it.
NoRun ==
    [cmd |-> "none", res |-> "none", size_in |-> 0, chunk_size_in |-> 0,
     bytes |-> 0, loaded |-> NoConfig, config |-> NoConfig, file_before |-> None]

ConfigIdle ==
    /\ byte_unit = "B"
    /\ overflow_checks = FALSE
    /\ config_file = None
    /\ cli = NoRun
    /\ cli_runs = 0

\* The arguments the unit can count: those with the suffix T at the large
\* unit, and the others, with a chunk size, in bytes.
Written(arg, u) == (u = "B") <=> (arg.suffix \notin {"t", "T"})

\* The value an argument of --size, --chunk-size or --bytes stands for.
Meant(arg, u) == arg.val * SuffixMul(arg.suffix, u)

\* init: parse_init, then init::run, which refuses a repository that exists
\* and saves the configuration.
InitCmd(args) ==
    /\ cli_runs < MaxCliRuns
    /\ Written(args.size, byte_unit)
    /\ args.chunk_size # None => Written(Get(args.chunk_size), byte_unit)
    /\ cli_runs' = cli_runs + 1
    /\ LET parsed == parse_init(args, byte_unit, overflow_checks)
           res == IF parsed.res = "ok" /\ config_file # None THEN "err" ELSE parsed.res
       IN  /\ cli' = [cmd |-> "init", res |-> res,
                      size_in |-> Meant(args.size, byte_unit),
                      chunk_size_in |-> IF args.chunk_size = None THEN DefaultChunkSize
                                        ELSE Meant(Get(args.chunk_size), byte_unit),
                      bytes |-> 0, loaded |-> NoConfig,
                      config |-> parsed.config, file_before |-> config_file]
           /\ config_file' = IF res = "ok" THEN Some(to_string(parsed.config))
                             ELSE config_file
    /\ UNCHANGED <<byte_unit, overflow_checks, notconfig>>

\* expand: parse_expand, then expand::run, which loads the configuration,
\* expands the size and saves.
ExpandCmd(arg) ==
    /\ cli_runs < MaxCliRuns
    /\ Written(arg, byte_unit)
    /\ cli_runs' = cli_runs + 1
    /\ LET bytes == parse_size(arg, byte_unit, overflow_checks)
           loaded == read_config_file(config_file)
           expanded == expand_size_by_bytes(loaded.config, bytes.v, byte_unit)
           res == IF bytes.res = "panic" THEN "panic"
                  ELSE IF loaded.res = "err" \/ expanded = None THEN "err"
                  ELSE "ok"
       IN  /\ byte_unit = "B" /\ loaded.res = "ok" => loaded.config.size <= MaxSizeBytes
           /\ cli' = [cmd |-> "expand", res |-> res, size_in |-> 0, chunk_size_in |-> 0,
                      bytes |-> bytes.v, loaded |-> loaded.config,
                      config |-> IF res = "ok" THEN Get(expanded) ELSE NoConfig,
                      file_before |-> config_file]
           /\ config_file' = IF res = "ok" THEN Some(to_string(Get(expanded)))
                             ELSE config_file
    /\ UNCHANGED <<byte_unit, overflow_checks, notconfig>>

(***************************************************************************)
(* IoWorker::spawn_tasks, src/src/io_worker.rs, with Runtime::spawn.       *)
(***************************************************************************)
\* start.rs gives a new device this queue_depth
DefaultQueueDepth == 128

\* UBLK_MAX_QUEUE_DEPTH, the largest queue_depth the driver gives a device
MaxQueueDepth == 4096

\* The queue depths spawn_tasks is run with: a recovered device has the
\* queue_depth the driver reports for it.
QueueDepths == {1, 2, DefaultQueueDepth, 255, 256, 257, 300, MaxQueueDepth}

AsU8(x) == x % 256

\* The end of the range `0..self.dev_info.queue_depth as u8`.
LoopEnd(queue_depth) == AsU8(queue_depth)

SpawnStart(queue_depth) ==
    spawner = [queue_depth |-> queue_depth, tag |-> 0, keys |-> {},
               nspawn |-> 0, pc |-> "spawning"]

SpawnIdle ==
    spawner = [queue_depth |-> 0, tag |-> 0, keys |-> {}, nspawn |-> 0,
               pc |-> "idle"]

\* One turn of the loop: Runtime::spawn inserts the task of `tag` in the table.
SpawnTask ==
    /\ spawner.pc = "spawning"
    /\ spawner.tag < LoopEnd(spawner.queue_depth)
    /\ spawner' = [spawner EXCEPT !.keys = @ \cup {spawner.tag},
                                  !.nspawn = @ + 1,
                                  !.tag = @ + 1]
    /\ UNCHANGED notspawner

\* The range is at its end: spawn_tasks returns Ok.
SpawnDone ==
    /\ spawner.pc = "spawning"
    /\ spawner.tag >= LoopEnd(spawner.queue_depth)
    /\ spawner' = [spawner EXCEPT !.pc = "done"]
    /\ UNCHANGED notspawner

(***************************************************************************)
(* The worker: its executor, its tasks and the kernel.                     *)
(***************************************************************************)
RouterIdle ==
    /\ unit = 1
    /\ request = [chunk_size |-> ChunkSize, start_sector |-> 0, nr_sectors |-> 0]
    /\ parts = parts_for_event(Config, request)
    /\ emitted = <<>>
    /\ exhausted = TRUE
    /\ calls = 0

Init ==
    /\ WorkerInit /\ RouterIdle /\ ChunkIdle /\ SupervisorIdle /\ ConfigIdle
    /\ SpawnIdle

Next ==
    \/ RunAllTasks
    \/ RunReturns
    \/ SubmitAndWait
    \/ ProcessEntries
    \/ \E k \in entry_keys, oracle \in {"ok", "open_err", "register_err"} :
          RunTasksPoll(k, oracle)
    \/ \E e \in inflight, d \in DescChoices : DriverDeliver(e, d)
    \/ \E e \in inflight : DriverAbort(e)
    \/ \E e \in inflight : DriverReject(e)
    \/ \E e \in inflight : OpSucceeds(e)
    \/ \E e \in inflight : \E c \in ShortCounts(e.len) : RwShort(e, c)
    \/ \E e \in inflight, errno \in {EINTR, EIO, ENOSPC} : OpFails(e, errno)

Spec == Init /\ [][Next]_vars

(***************************************************************************)
(* Properties of the worker.                                               *)
(***************************************************************************)
\* The sectors of a sequence of parts.
RECURSIVE SumNr(_)
SumNr(ps) == IF ps = <<>> THEN 0 ELSE Head(ps).nr_sectors + SumNr(Tail(ps))

Last(q) == q[Len(q)]
MinOf(S) == CHOOSE x \in S : \A y \in S : x <= y

RECURSIVE SumPositive(_)
SumPositive(q) ==
    IF q = <<>> THEN 0
    ELSE (IF Head(q) > 0 THEN Head(q) ELSE 0) + SumPositive(Tail(q))

\* The entries the ring or the kernel holds.
Outstanding == sq \cup inflight
CmdsOf(tag) == {e \in Outstanding : IsCmd(e) /\ e.cmd_tag = tag}
CommitsOf(tag) ==
    {e \in CmdsOf(tag) : e.cmd_op = "UBLK_U_IO_COMMIT_AND_FETCH_REQ"}
BackingOf(tag) == {e \in Outstanding : IsBacking(e) /\ TagOf(e) = tag}
RwOf(tag) == {e \in Outstanding : IsRw(e) /\ TagOf(e) = tag}

FourOps ==
    {UBLK_IO_OP_READ, UBLK_IO_OP_WRITE, UBLK_IO_OP_FLUSH, UBLK_IO_OP_WRITE_ZEROES}

\* The task is in a request: it awaits a part or the request's commit.
InRequest(t) == t.pc \in {"part_await", "commit_await"}

\* Every result the task consumed for the entry's last submission is in
\* results; a result the kernel has posted and the task has not consumed is in
\* the completion queue or the mailbox.
Consumed(e) == Len(e.results) = Len(e.subs)
Posted(e) ==
    IF Consumed(e) THEN None
    ELSE IF \E c \in cq : c.user_data = e.waiter.entry_key
    THEN Some((CHOOSE c \in cq : c.user_data = e.waiter.entry_key).result)
    ELSE IF e.waiter.entry_key \in DOMAIN mailbox
    THEN Some(mailbox[e.waiter.entry_key])
    ELSE None
IsError(r) == r < 0 /\ r # -EINTR
\* The negative result other than -EINTR the entry's operation completed with.
ErrorOf(e) ==
    IF Consumed(e) /\ e.results # <<>> /\ IsError(Last(e.results))
    THEN Some(Last(e.results))
    ELSE IF Posted(e) # None /\ IsError(Posted(e)[1]) THEN Posted(e)
    ELSE None
ErrorParts(t) == {i \in 1..Len(t.entries) : ErrorOf(t.entries[i]) # None}

\* A task ends only when a command of its tag completed with ABORT, or when its
\* initial fetch failed.
EndsOnlyOnAbort(t) ==
    t.pc = "done" =>
        /\ t.waiter.result # None
        /\ \/ t.waiter.result[1] = UBLK_IO_RES_ABORT
           \/ t.gen = 0 /\ t.waiter.result[1] < 0

\* C3: a READ or WRITE request committed with a non-negative result is committed
\* with nr_sectors << 9, and for each of its parts the byte counts of the part's
\* operations add up to the part's nr_sectors << 9.
C3_CommitsWholeByteCount ==
    \A tag \in Tags : \A e \in CommitsOf(tag) :
        LET t == tasks[tag]
            d == descs[tag]
        IN  e.cmd_result >= 0 /\ DescOp(d) \in {UBLK_IO_OP_READ, UBLK_IO_OP_WRITE} =>
                /\ e.cmd_result = d.nr_sectors * 512
                /\ SumNr([i \in 1..Len(t.entries) |-> t.entries[i].part]) = d.nr_sectors
                /\ \A i \in 1..Len(t.entries) :
                      SumPositive(t.entries[i].results)
                          = t.entries[i].part.nr_sectors * 512

\* C3: a two-part READ is committed after one of its operations came back short.
C3_CommittedAfterShortRead ==
    \E tag \in Tags : \E e \in CommitsOf(tag) :
        /\ e.cmd_result = 1024
        /\ DescOp(descs[tag]) = UBLK_IO_OP_READ
        /\ Len(tasks[tag].entries) = 2
        /\ \E i \in 1..2 : \E j \in 1..Len(tasks[tag].entries[i].results) :
              /\ tasks[tag].entries[i].results[j] > 0
              /\ tasks[tag].entries[i].results[j] < 512

\* C4: a COMMIT_AND_FETCH is submitted only after every sub-operation of the
\* request has completed and its result has been consumed: while the commit of a
\* tag is submitted, no backing operation of the tag is with the ring or the
\* kernel, and every operation the request submitted has its result consumed.
C4_CommitAfterAllSubOperations ==
    \A tag \in Tags :
        CommitsOf(tag) # {} =>
            /\ BackingOf(tag) = {}
            /\ \A i \in 1..Len(tasks[tag].entries) : Consumed(tasks[tag].entries[i])

\* C4, the case it fails in: the first part of a two-part READ failed, its
\* result is being committed and the read of the second part is still in flight.
C4_CommitWhilePartInFlight ==
    \E tag \in Tags : \E e \in CommitsOf(tag) : \E b \in BackingOf(tag) :
        /\ e.cmd_result < 0
        /\ b.req = e.req
        /\ Len(tasks[tag].entries) = 2
        /\ ~Consumed(tasks[tag].entries[2])

\* C5: the reads and writes in flight against a tag's slot belong to one
\* request, the one the task is in; their buffer ranges are pairwise disjoint
\* and inside the slot; none is in flight while the tag's next request is being
\* fetched.
C5_SlotLoanedToOneRequest ==
    \A tag \in Tags :
        /\ \A a \in RwOf(tag) :
              /\ a.req = tasks[tag].gen
              /\ CmdsOf(tag) = {}
              /\ tag * elem_size <= a.addr
              /\ a.addr + a.len <= (tag + 1) * elem_size
        /\ \A a, b \in RwOf(tag) :
              a # b => a.req = b.req /\ (a.addr + a.len <= b.addr \/ b.addr + b.len <= a.addr)

\* C5, the case it fails in: a read of the request before is in flight against
\* the slot while the task executes the tag's next request.
C5_EarlierReadDuringLaterRequest ==
    \E tag \in Tags : \E a \in RwOf(tag) :
        /\ a.req < tasks[tag].gen
        /\ tasks[tag].pc = "part_await"

\* C6: for each tag at most one FETCH_REQ or COMMIT_AND_FETCH_REQ is with the
\* ring or the kernel, and while it is the task awaits it and executes nothing.
C6_OneCommandPerTag ==
    \A tag \in Tags :
        /\ Cardinality(CmdsOf(tag)) <= 1
        /\ CmdsOf(tag) # {} =>
              /\ tasks[tag].pc \in {"fetch_await", "commit_await"}
              /\ \A e \in CmdsOf(tag) : e.user_data = tasks[tag].waiter.entry_key

\* C6: both tags have a COMMIT_AND_FETCH_REQ in flight.
C6_CommitsInFlight ==
    \A tag \in Tags : CommitsOf(tag) \cap inflight # {}

\* The arguments of a read or write entry.
RwArgs(e) == <<e.opcode, e.fd, e.addr, e.len, e.offset, e.rw_flags>>

\* C7: a read or write of a part (start_sector s, nr_sectors n) that is
\* submitted once c bytes of the part are done has file offset (s << 9) + c,
\* length (n << 9) - c and the part's buffer address plus c; after -EINTR it is
\* submitted again with the arguments it had; the part is finished exactly when
\* the bytes done are n << 9.
C7_ResubmitsTheRest ==
    \A tag \in Tags :
        LET t == tasks[tag]
        IN  InRequest(t) /\ DescOp(t.desc) \in {UBLK_IO_OP_READ, UBLK_IO_OP_WRITE} =>
            \A i \in 1..Len(t.entries) :
                LET e == t.entries[i]
                    finished == i < t.cur \/ (t.pc = "commit_await" /\ t.committed[1] >= 0)
                IN  /\ \A j \in 1..Len(e.subs) :
                          LET c == SumPositive(SubSeq(e.results, 1, j - 1))
                          IN  /\ e.subs[j].offset = e.part.start_sector * 512 + c
                              /\ e.subs[j].len = e.part.nr_sectors * 512 - c
                              /\ e.subs[j].addr
                                    = tag * elem_size + e.part.buf_offset * 512 + c
                              /\ j > 1 /\ e.results[j-1] = -EINTR =>
                                    RwArgs(e.subs[j]) = RwArgs(e.subs[j-1])
                    /\ finished <=> SumPositive(e.results) = e.part.nr_sectors * 512

\* C7: a part was interrupted, then came back short, and its rest is submitted.
C7_ResubmittedTwice ==
    \E tag \in Tags : \E i \in 1..Len(tasks[tag].entries) :
        LET e == tasks[tag].entries[i]
        IN  /\ InRequest(tasks[tag])
            /\ Len(e.subs) = 3
            /\ e.results[1] = -EINTR
            /\ e.results[2] > 0
            /\ e.subs[3] \in Outstanding

C9_UnknownOpCommitsEio ==
    /\ \A tag \in Tags : \A e \in CommitsOf(tag) :
          DescOp(descs[tag]) \notin FourOps =>
              /\ e.cmd_result = -EIO
              /\ tasks[tag].entries = <<>>
              /\ tasks[tag].opened = {}
              /\ \A b \in BackingOf(tag) : b.req # e.req
    /\ \A tag \in Tags : EndsOnlyOnAbort(tasks[tag])

\* C9: the commit of a DISCARD is in flight.
C9_DiscardCommitted ==
    \E tag \in Tags : \E e \in CommitsOf(tag) :
        /\ DescOp(descs[tag]) = UBLK_IO_OP_DISCARD
        /\ e \in inflight
        /\ chunks = {}

\* C10: a task whose initial FETCH_REQ completed with a negative result has
\* ended, cleanly if the result is ABORT and with an error otherwise; it has
\* executed no descriptor and committed nothing.
C10_InitialFetchFailureEndsTask ==
    \A tag \in Tags :
        LET t == tasks[tag]
        IN  t.first_fetch # None /\ t.first_fetch[1] < 0 =>
                /\ t.pc = "done"
                /\ t.outcome = IF t.first_fetch[1] = UBLK_IO_RES_ABORT THEN "ok" ELSE "err"
                /\ t.gen = 0
                /\ t.ncommit = 0
                /\ tag \notin live
                /\ {e \in Outstanding : TagOf(e) = tag} = {}

\* C10: one task's initial fetch was aborted, the other's was refused.
C10_BothEndings ==
    \E a, b \in Tags :
        /\ tasks[a].first_fetch = Some(UBLK_IO_RES_ABORT)
        /\ tasks[a].outcome = "ok"
        /\ tasks[b].first_fetch = Some(-EINVAL)
        /\ tasks[b].outcome = "err"

\* C11: when a COMMIT_AND_FETCH completes with ABORT the task ends cleanly and
\* executes no further descriptor; when it completes with another negative
\* value the task does not end: it goes round its loop again.
C11_CommitAbortEndsOtherErrorContinues ==
    /\ [](\A tag \in Tags :
            LET t == tasks[tag]
            IN  /\ t.pc = "done" /\ t.gen > 0 =>
                      t.waiter.result = Some(UBLK_IO_RES_ABORT) /\ t.outcome = "ok"
                /\ t.waiter.result = Some(UBLK_IO_RES_ABORT) => t.pc = "done")
    /\ [][\A tag \in Tags :
            LET t == tasks[tag]
                r == mailbox[t.waiter.entry_key]
            IN  t.pc = "commit_await" /\ tasks'[tag] # t =>
                    /\ t.waiter.entry_key \in DOMAIN mailbox
                    /\ IF r = UBLK_IO_RES_ABORT
                       THEN /\ tasks'[tag].pc = "done"
                            /\ tasks'[tag].outcome = "ok"
                            /\ tasks'[tag].gen = t.gen
                            /\ tasks'[tag].ncommit = t.ncommit
                            /\ sq' = sq /\ inflight' = inflight
                       ELSE /\ tasks'[tag].pc \in {"part_await", "commit_await"}
                            /\ tasks'[tag].outcome = "running"
                            /\ tasks'[tag].gen = t.gen + 1]_vars

\* C11: the commit of the task's first request completed with -EINVAL and the
\* task is executing a request again.
C11_LoopsAfterCommitError ==
    \E tag \in Tags :
        /\ tasks[tag].pc = "part_await"
        /\ tasks[tag].gen = 2
        /\ tasks[tag].waiter.result = Some(-EINVAL)

\* The chunks that the sectors of a descriptor lie in.
ChunksCovered(d) ==
    {x \div (ChunkSize \div 512) :
        x \in d.start_sector..(d.start_sector + d.nr_sectors - 1)}

\* C12: a FLUSH request has one fsync for each chunk file its sector range
\* covers; an fsync that returned -EINTR is submitted again; the request is
\* committed with 0 only after each of these fsyncs has completed with 0.
C12_FlushSyncsEveryChunk ==
    \A tag \in Tags :
        LET t == tasks[tag]
        IN  InRequest(t) /\ DescOp(t.desc) = UBLK_IO_OP_FLUSH =>
            /\ t.pc = "part_await" \/ t.committed[1] = 0 =>
                  /\ Len(t.entries) = Cardinality(ChunksCovered(t.desc))
                  /\ {t.entries[i].part.file_num : i \in 1..Len(t.entries)}
                        = ChunksCovered(t.desc)
            /\ \A i \in 1..Len(t.entries) :
                  LET e == t.entries[i]
                  IN  /\ \A j \in 1..Len(e.subs) :
                            /\ e.subs[j].opcode = "Fsync"
                            /\ e.subs[j].fd = file_indexes[e.part.file_num]
                      /\ \A j \in 1..Len(e.results) :
                            j < Len(e.subs) <=> e.results[j] = -EINTR
                      /\ t.pc = "commit_await" /\ t.committed[1] = 0 =>
                            /\ Consumed(e)
                            /\ Last(e.results) = 0
                            /\ e.subs[Len(e.subs)] \notin Outstanding

\* C12: a FLUSH over two chunks is committed with 0 after one of its fsyncs was
\* interrupted and submitted again.
C12_FlushCommittedAfterRetry ==
    \E tag \in Tags : \E e \in CommitsOf(tag) :
        /\ DescOp(tasks[tag].desc) = UBLK_IO_OP_FLUSH
        /\ e.cmd_result = 0
        /\ Len(tasks[tag].entries) = 2
        /\ \E i \in 1..2 : tasks[tag].entries[i].results = <<-EINTR, 0>>

\* C13: a WRITE_ZEROES request has one fallocate per chunk covered, over the
\* part's byte range in the chunk; its mode is KEEP_SIZE | ZERO_RANGE if and
\* only if op_flags carries NOUNMAP at the bit where the driver sets it (as FUA
\* is read from op_flags), and KEEP_SIZE | PUNCH_HOLE otherwise.
C13_WriteZeroesModeFollowsNounmap ==
    \A tag \in Tags :
        LET t == tasks[tag]
        IN  InRequest(t) /\ DescOp(t.desc) = UBLK_IO_OP_WRITE_ZEROES =>
            /\ t.pc = "part_await" =>
                  {t.entries[i].part.file_num : i \in 1..Len(t.entries)}
                      = ChunksCovered(t.desc)
            /\ \A i \in 1..Len(t.entries) : \A j \in 1..Len(t.entries[i].subs) :
                  LET e == t.entries[i]
                      q == e.subs[j]
                  IN  /\ q.opcode = "Fallocate"
                      /\ q.fd = file_indexes[e.part.file_num]
                      /\ q.offset = e.part.start_sector * 512
                      /\ q.len = e.part.nr_sectors * 512
                      /\ q.mode = IF BitAnd(t.desc.op_flags, UBLK_IO_F_NOUNMAP) # 0
                                  THEN FALLOC_FL_KEEP_SIZE + FALLOC_FL_ZERO_RANGE
                                  ELSE FALLOC_FL_KEEP_SIZE + FALLOC_FL_PUNCH_HOLE

\* C13, the case it fails in: the descriptor carries NOUNMAP and the fallocate
\* in flight for it punches a hole.
C13_NounmapPunchesHole ==
    \E tag \in Tags : \E q \in inflight :
        /\ TagOf(q) = tag
        /\ q.req = tasks[tag].gen
        /\ tasks[tag].pc = "part_await"
        /\ tasks[tag].desc.op_flags = UBLK_IO_OP_WRITE_ZEROES + UBLK_IO_F_NOUNMAP
        /\ q.opcode = "Fallocate"
        /\ q.mode = FALLOC_FL_KEEP_SIZE + FALLOC_FL_PUNCH_HOLE

\* C14: every write submitted for a WRITE request, the ones submitted again
\* after a short completion or -EINTR included, carries RWF_DSYNC if and only if
\* the descriptor carries FUA; a read carries no flag.
C14_DsyncFollowsFua ==
    /\ \A q \in Outstanding : q.opcode = "Read" => q.rw_flags = 0
    /\ \A tag \in Tags :
          LET t == tasks[tag]
          IN  InRequest(t) /\ DescOp(t.desc) \in {UBLK_IO_OP_READ, UBLK_IO_OP_WRITE} =>
              \A i \in 1..Len(t.entries) : \A j \in 1..Len(t.entries[i].subs) :
                  LET q == t.entries[i].subs[j]
                  IN  IF DescOp(t.desc) = UBLK_IO_OP_READ
                      THEN q.opcode = "Read" /\ q.rw_flags = 0
                      ELSE /\ q.opcode = "Write"
                           /\ q.rw_flags = RWF_DSYNC
                                <=> BitAnd(t.desc.op_flags, UBLK_IO_F_FUA) # 0
                           /\ q.rw_flags \in {0, RWF_DSYNC}

\* C14: a write with FUA came back short and its rest is in flight with
\* RWF_DSYNC.
C14_FuaWriteResubmitted ==
    \E tag \in Tags : \E i \in 1..Len(tasks[tag].entries) :
        LET e == tasks[tag].entries[i]
        IN  /\ tasks[tag].pc = "part_await"
            /\ tasks[tag].desc.op_flags = UBLK_IO_OP_WRITE + UBLK_IO_F_FUA
            /\ Len(e.subs) = 2
            /\ e.results[1] > 0
            /\ e.subs[2] \in inflight
            /\ e.subs[2].rw_flags = RWF_DSYNC

\* C15: the file-index table of the worker is injective and its slots are
\* exactly 1..n for n cached chunks (never slot 0); an entry never changes once
\* it is inserted; a chunk that is in the table is not opened or registered
\* again, whichever task asks for it.
C15_FileIndexTableWriteOnce ==
    /\ [](/\ \A a, b \in DOMAIN file_indexes :
                a # b => file_indexes[a] # file_indexes[b]
          /\ {file_indexes[c] : c \in DOMAIN file_indexes}
                = 1..Cardinality(DOMAIN file_indexes)
          /\ \A c \in DOMAIN file_indexes : file_indexes[c] # UBLKC_FD_IDX)
    /\ [][/\ \A c \in DOMAIN file_indexes :
                c \in DOMAIN file_indexes' /\ file_indexes'[c] = file_indexes[c]
          /\ \A tag \in Tags :
                tasks'[tag].gen # tasks[tag].gen =>
                    /\ tasks'[tag].opened \cap DOMAIN file_indexes = {}
                    /\ DOMAIN file_indexes' \ DOMAIN file_indexes
                          \subseteq tasks'[tag].opened]_vars

\* C15: two chunks are in the table; one task opened chunk 0 for its request
\* and the other task's request uses chunk 0 without having opened it.
C15_SecondTaskUsesCachedChunk ==
    \E a, b \in Tags :
        /\ a # b
        /\ Cardinality(DOMAIN file_indexes) = 2
        /\ tasks[a].pc = "part_await" /\ tasks[b].pc = "part_await"
        /\ 0 \in tasks[a].opened
        /\ 0 \notin tasks[b].opened
        /\ \E i \in 1..Len(tasks[b].entries) :
              /\ tasks[b].entries[i].part.file_num = 0
              /\ tasks[b].entries[i].file_index = file_indexes[0]

\* The entries that the step has pushed for the tag.
Pushed(tag) ==
    {e \in (sq' \cup inflight') \ (sq \cup inflight) : TagOf(e) = tag}

\* No user-data value is that of two entries the kernel has or will get, of
\* two completions not yet consumed, or of both.
UserDataUnique ==
    /\ \A e1, e2 \in Outstanding : e1.user_data = e2.user_data => e1 = e2
    /\ \A c1, c2 \in cq : c1.user_data = c2.user_data => c1 = c2
    /\ \A e \in Outstanding :
          /\ e.user_data \notin DOMAIN mailbox
          /\ \A c \in cq : c.user_data # e.user_data
    /\ \A c \in cq : c.user_data \notin DOMAIN mailbox

\* C26: every submitter starts with sequence_id 1; a step in which the task of
\* a tag pushes n entries gives them the user-data (sequence_id << 8) | tag
\* for the n sequence_ids from the submitter's, which goes up by n; no
\* user-data value is shared by two submissions that are outstanding or whose
\* completion is not consumed; the low 8 bits of a command's user-data are the
\* tag the command is for.
C26_UserDataIsSequenceAndTag ==
    /\ \A tag \in Tags : tasks[tag].idx = 1
    /\ [](UserDataUnique /\ \A e \in Outstanding : IsCmd(e) => TagOf(e) = e.cmd_tag)
    /\ [][\A tag \in Tags :
            /\ {e.user_data : e \in Pushed(tag)}
                  = {i * 256 + tag : i \in tasks[tag].idx .. (tasks'[tag].idx - 1)}
            /\ Cardinality(Pushed(tag)) = tasks'[tag].idx - tasks[tag].idx]_vars

\* C26: a tag has two entries outstanding and a completion in the mailbox, the
\* three with sequence_ids of their own.
C26_ThreeOfOneTag ==
    \E tag \in Tags :
        /\ \E e1, e2 \in Outstanding :
              /\ TagOf(e1) = tag /\ TagOf(e2) = tag
              /\ e1.user_data # e2.user_data
        /\ \E k \in DOMAIN mailbox : k % 256 = tag

\* The waiters the task holds: the one of its command, or the ones collected
\* for the parts of its request.
WaitersOf(t) ==
    IF t.pc \in {"fetch_await", "commit_await"} THEN {t.waiter}
    ELSE IF t.pc = "part_await"
    THEN {t.entries[i].waiter : i \in 1..Len(t.entries)}
    ELSE {}

\* The waiter of the live task of the key's tag that the completion is for.
WaiterFor(key) ==
    IF key % 256 \in live
    THEN {wt \in WaitersOf(tasks[key % 256]) :
             wt.entry_key = key /\ wt.result = None}
    ELSE {}

\* What Waiter::poll does for the waiter: Pending without a change of the
\* mailbox before the completion was drained; with the completion drained, the
\* completion's result, the waiter's own entry and no other removed, and the
\* same again without a change on the next poll.
PollsAsStated(wt) ==
    LET p     == WaiterPoll(wt, mailbox)
        again == WaiterPoll(p.waiter, p.mailbox)
        key   == wt.entry_key
    IN  /\ wt.result = None /\ key \notin DOMAIN mailbox =>
              ~p.ready /\ p.mailbox = mailbox /\ p.waiter = wt
        /\ wt.result = None /\ key \in DOMAIN mailbox =>
              /\ p.ready /\ p.result = mailbox[key]
              /\ DOMAIN p.mailbox = DOMAIN mailbox \ {key}
              /\ \A k \in DOMAIN p.mailbox : p.mailbox[k] = mailbox[k]
              /\ again.ready /\ again.result = p.result
              /\ again.mailbox = p.mailbox
        /\ wt.result # None =>
              p.ready /\ p.result = wt.result[1] /\ p.mailbox = mailbox

\* A step takes a completion out of the mailbox only for the waiter of its
\* submission, which gets the completion's result, and leaves the others as
\* they were.
TakenByItsWaiter ==
    /\ \A key \in DOMAIN mailbox \cap DOMAIN mailbox' :
          mailbox'[key] = mailbox[key]
    /\ \A key \in DOMAIN mailbox \ DOMAIN mailbox' :
          LET t == tasks[key % 256]
              u == tasks'[key % 256]
          IN  /\ WaiterFor(key) # {}
              /\ t.pc = "fetch_await" => u.first_fetch = Some(mailbox[key])
              /\ t.pc = "part_await" =>
                    \E i \in 1..Len(t.entries) :
                        /\ t.entries[i].waiter.entry_key = key
                        /\ u.entries[i].results[Len(t.entries[i].subs)]
                              = mailbox[key]

\* The clauses of C27 about Waiter::poll and about who takes a completion.
WaitersTakeTheirOwn ==
    /\ [](\A tag \in live : \A wt \in WaitersOf(tasks[tag]) : PollsAsStated(wt))
    /\ [][TakenByItsWaiter]_vars

\* C27: every completion is delivered, once and to the waiter created for its
\* submission: the completions that are posted or drained each have their
\* waiter, not yet ready, in the task of their tag; a waiter polled before its
\* completion was drained is Pending and the mailbox as before; polled after,
\* it takes its own mailbox entry and no other and has the completion's
\* result; every later poll gives that result and leaves the mailbox alone.
C27_EachCompletionToItsWaiterOnce ==
    /\ WaitersTakeTheirOwn
    /\ [](\A key \in DOMAIN mailbox \cup {c.user_data : c \in cq} :
              WaiterFor(key) # {})

\* C27: the executor blocks with a completion in the mailbox that no waiter is
\* there to take: its task has committed the request of the completion's entry
\* and is in a later one.
C27_CompletionWithoutWaiter ==
    /\ rt = "blocked"
    /\ \E key \in DOMAIN mailbox :
          /\ key % 256 \in live
          /\ WaiterFor(key) = {}
          /\ key \div 256 < tasks[key % 256].idx
          /\ tasks[key % 256].pc = "part_await"

\* The waiters of the task whose completion the task has not consumed.
Unready(t) == {wt \in WaitersOf(t) : wt.result = None}

\* A completion is consumed only when every waiter the task is left with is
\* of a later submission.
ConsumedInSubmissionOrder ==
    \A key \in DOMAIN mailbox \ DOMAIN mailbox' :
        \A wt \in Unready(tasks'[key % 256]) : wt.entry_key > key

\* C28 as stated: a tag never has two outstanding waiters, and its task
\* consumes the completions in the order of the submissions.
C28_OneWaiterAndSubmissionOrder ==
    /\ [](\A tag \in Tags : Cardinality(Unready(tasks[tag])) <= 1)
    /\ [][ConsumedInSubmissionOrder]_vars

\* The task awaits the parts of its request one at a time in part order: the
\* parts before the current one are consumed, the ones after it wait with the
\* one submission they were collected with, a part's submissions are consumed
\* in their order, and the parts were first submitted in part order.
AwaitsInPartOrder(t) ==
    t.pc = "part_await" =>
        /\ t.cur \in 1..Len(t.entries)
        /\ \A i \in 1..Len(t.entries) :
              LET e == t.entries[i]
              IN  /\ i < t.cur => Consumed(e) /\ e.waiter.result # None
                  /\ i = t.cur =>
                        e.waiter.result = None /\ Len(e.results) = Len(e.subs) - 1
                  /\ i > t.cur =>
                        e.waiter.result = None /\ e.results = <<>> /\ Len(e.subs) = 1
                  /\ e.waiter.entry_key = Last(e.subs).user_data
                  /\ \A a, b \in 1..Len(e.subs) :
                        a < b => e.subs[a].user_data < e.subs[b].user_data
        /\ \A i, j \in 1..Len(t.entries) :
              i < j => /\ t.entries[i].subs[1].user_data < t.entries[j].subs[1].user_data
                       /\ t.entries[i].part.buf_offset <= t.entries[j].part.buf_offset
        /\ Cardinality(Unready(t)) = Len(t.entries) - t.cur + 1

\* A completion is taken for a part only with every part before it consumed.
TakenInPartOrder ==
    \A key \in DOMAIN mailbox \ DOMAIN mailbox' :
        LET t == tasks[key % 256]
            u == tasks'[key % 256]
        IN  t.pc = "part_await" =>
                \E i \in t.cur..Len(t.entries) :
                    /\ t.entries[i].waiter.entry_key = key
                    /\ \A j \in 1..(i - 1) : Consumed(u.entries[j])

\* C28, amended: a task awaits one waiter at a time; while it awaits a command
\* the tag has one outstanding waiter, while it awaits a part it has one per
\* part not yet finished; the completions of a request are consumed in part
\* order, which is the order of the parts' first submissions, and those of one
\* part in the order of its submissions.
C28_OneAwaitedAndPartOrder ==
    /\ [](\A tag \in Tags :
              /\ AwaitsInPartOrder(tasks[tag])
              /\ tasks[tag].pc \in {"fetch_await", "commit_await"} =>
                    Cardinality(Unready(tasks[tag])) = 1)
    /\ [][TakenInPartOrder]_vars

\* C28: the first part's operation was submitted again after the second part's
\* and consumed before it; the tag's task now awaits the second part.
C28_ResubmittedConsumedFirst ==
    \E tag \in live :
        LET t == tasks[tag]
        IN  /\ t.pc = "part_await" /\ t.cur = 2
            /\ Len(t.entries[1].subs) >= 2
            /\ Consumed(t.entries[1])
            /\ Last(t.entries[1].subs).user_data > t.entries[2].subs[1].user_data
            /\ t.entries[2].waiter.result = None

\* The waiter the task is suspended on.
Awaited(t) ==
    IF t.pc = "part_await" THEN t.entries[t.cur].waiter ELSE t.waiter

\* The live tasks that a poll would take further: the completion for the
\* waiter they await is in the mailbox.
Wakeable ==
    {tag \in live :
        /\ tasks[tag].pc \in {"fetch_await", "commit_await", "part_await"}
        /\ Awaited(tasks[tag]).entry_key \in DOMAIN mailbox}

\* C29: when the executor is about to block or is blocked, no live task is
\* suspended on a waiter whose completion is in the mailbox; while run_tasks
\* goes through the keys, every live task whose awaited completion is in the
\* mailbox has a key of its tag left in the snapshot, so it is polled before
\* run_tasks ends.
C29_NoLostWakeup ==
    /\ rt \in {"wait", "blocked", "returned"} => Wakeable = {}
    /\ rt = "run_tasks" =>
          \A tag \in Wakeable : \E key \in entry_keys : key % 256 = tag

\* C29: the executor is blocked, the operation of a request's second part has
\* completed before the first part's and its completion waits in the mailbox
\* for the task, which awaits the first part.
C29_LaterPartCompletedFirst ==
    /\ rt = "blocked"
    /\ \E tag \in live :
          LET t == tasks[tag]
          IN  /\ t.pc = "part_await" /\ t.cur = 1 /\ Len(t.entries) = 2
              /\ t.entries[2].waiter.entry_key \in DOMAIN mailbox
              /\ t.entries[1].waiter.entry_key \notin DOMAIN mailbox

\* The tasks that ended with Err: the closure of spawn_tasks logs them.
Failed == {tag \in Tags : tasks[tag].outcome = "err"}

EmittedFor(t) == CollectParts(parts_for_event(Config, t.desc), t.desc.nr_sectors)

\* The task of the tag starts to await the parts of a request in this step.
StartsToAwait(tag) ==
    /\ tasks[tag].pc # "part_await" \/ tasks'[tag].gen # tasks[tag].gen
    /\ tasks'[tag].pc = "part_await"

\* C32: when a task starts to await the parts of a request, the operation of
\* every part the router emits for the request is submitted, one per part in
\* emission order, and none is awaited yet; the task then awaits the parts in
\* emission order: the parts before the current one are finished and none
\* after it is touched, whatever has completed.
C32_AllSubmittedThenAwaitedInOrder ==
    /\ [][\A tag \in Tags :
            StartsToAwait(tag) =>
                LET u  == tasks'[tag]
                    ps == EmittedFor(u)
                IN  /\ Len(u.entries) = Len(ps)
                    /\ u.cur = 1
                    /\ \A i \in 1..Len(ps) :
                          /\ u.entries[i].part = ps[i]
                          /\ u.entries[i].results = <<>>
                          /\ u.entries[i].subs[1] \in sq' \cup inflight'
                          /\ u.entries[i].subs[1].user_data
                                = (tasks[tag].idx + i - 1) * 256 + tag]_vars
    /\ [](\A tag \in Tags :
              LET t == tasks[tag]
              IN  t.pc = "part_await" =>
                      /\ \A i \in 1..(t.cur - 1) : Consumed(t.entries[i])
                      /\ \A i \in (t.cur + 1)..Len(t.entries) :
                            t.entries[i].results = <<>>
                      /\ \A i \in 1..Len(t.entries) :
                            t.entries[i].part = EmittedFor(t)[i])

\* C32: the kernel has completed the second part's operation and not the
\* first's; the completion is posted and the task awaits the first part.
C32_SecondPartPostedFirst ==
    \E tag \in live :
        LET t == tasks[tag]
        IN  /\ t.pc = "part_await" /\ t.cur = 1 /\ Len(t.entries) = 2
            /\ \E c \in cq : c.user_data = t.entries[2].waiter.entry_key
            /\ t.entries[1].subs[1] \in inflight
            /\ t.entries[1].results = <<>>

\* The result of the command the task awaits, once it is in the mailbox.
CommandResult(t) == mailbox[t.waiter.entry_key]

\* C37: a task executes the descriptor of its tag only in the step in which
\* it consumes a FETCH_REQ or COMMIT_AND_FETCH_REQ completion that is not
\* negative, and once; a task whose last command completed with a negative
\* result has no backing-file operation of a request of its own under way.
C37_ExecutesOncePerFetchedRequest ==
    /\ [][\A tag \in Tags :
            LET t == tasks[tag]
                u == tasks'[tag]
            IN  /\ u.gen \in {t.gen, t.gen + 1}
                /\ u.gen = t.gen + 1 /\ rt # "start" =>
                      /\ t.pc \in {"fetch_await", "commit_await"}
                      /\ t.waiter.entry_key \in DOMAIN mailbox
                      /\ CommandResult(t) >= 0]_vars
    /\ [](\A tag \in Tags :
              LET t == tasks[tag]
              IN  t.waiter.result # None /\ t.waiter.result[1] < 0 =>
                      \A e \in BackingOf(tag) : e.req # t.gen)

\* C37: the driver has handed the worker one request; the commit of it
\* completed with -EINVAL and the task has executed the descriptor a second
\* time: the operation of that second execution is with the kernel.
C37_DescriptorExecutedAgain ==
    /\ delivered = 1
    /\ \E tag \in live :
          LET t == tasks[tag]
          IN  /\ t.gen = 2 /\ t.pc = "part_await"
              /\ t.waiter.result = Some(-EINVAL)
              /\ \E e \in BackingOf(tag) : e.req = 2 /\ e \in inflight

\* C40: the task table holds exactly the tasks that have not finished; no
\* finished task was ever polled again; a step of the executor that comes to
\* a key of a finished task's tag leaves that task as it is.
C40_FinishedTaskNeverPolled ==
    /\ [](/\ rt # "start" => live = {tag \in Tags : tasks[tag].pc # "done"}
          /\ \A tag \in Tags : tasks[tag].outcome # "resumed")
    /\ [][\A tag \in Tags : tag \notin live => tasks'[tag] = tasks[tag]]_vars

\* C40: run_tasks goes through a snapshot that still holds a key of a task
\* that has finished in this round, the completion of an operation the task
\* had left behind being in the mailbox.
C40_KeyOfFinishedTaskInSnapshot ==
    /\ rt = "run_tasks"
    /\ \E k \in entry_keys \cap DOMAIN mailbox :
          /\ k % 256 \notin live
          /\ tasks[k % 256].pc = "done"

(***************************************************************************)
(* The router on its own: every request of the bounded input set is split  *)
(* part by part.                                                           *)
(***************************************************************************)
SectorUnits == {1, 1073741824}

ExampleRequest ==
    [chunk_size |-> 33554432, start_sector |-> 65500, nr_sectors |-> 100]

\* The requests the router is run on: chunk_size in bytes, the rest in sectors
\* (all counted in the state's unit).  The last one is the 32 MiB chunk with the
\* request that straddles the first chunk boundary.
RouterInputs ==
    [chunk_size   : {512 * k : k \in 1..MaxChunkSectors},
     start_sector : 0..MaxStartSector,
     nr_sectors   : 0..MaxNrSectors]
    \cup {ExampleRequest}

RouterInit ==
    /\ unit \in SectorUnits
    /\ request \in RouterInputs
    \* nr_sectors is a u32
    /\ unit > 1 => request.nr_sectors < 4 /\ request.chunk_size <= 512 * MaxChunkSectors
    /\ parts = parts_for_event([chunk_size |-> request.chunk_size], request)
    /\ emitted = <<>>
    /\ exhausted = FALSE
    /\ calls = 0
    /\ WorkerInit
    /\ ChunkIdle
    /\ SupervisorIdle
    /\ ConfigIdle
    /\ SpawnIdle

\* next() returns None.
PartsNextNone ==
    /\ ~exhausted
    /\ parts.nr_sectors = 0
    /\ exhausted' = TRUE
    /\ calls' = 1 - calls
    /\ UNCHANGED <<unit, parts, emitted, request, notrouter>>

\* next() returns Some(part).  emitted keeps the first MaxParts parts: a request
\* of at most MaxNrSectors sectors has fewer parts unless parts are empty.
PartsNextSome ==
    /\ ~exhausted
    /\ parts.nr_sectors # 0
    /\ emitted' = IF Len(emitted) < MaxParts
                  THEN Append(emitted, NextPart(parts)) ELSE emitted
    /\ parts' = Advance(parts)
    /\ calls' = 1 - calls
    /\ UNCHANGED <<unit, exhausted, request, notrouter>>

RouterNext == PartsNextNone \/ PartsNextSome

RouterSpec == RouterInit /\ [][RouterNext]_vars

\* The map/collect of the task calls next() until it returns None.
RouterLiveSpec == RouterSpec /\ WF_vars(RouterNext)

(***************************************************************************)
(* Properties of the router.                                               *)
(***************************************************************************)
\* What the i-th emitted part is, told from the request alone.
PartOfRequest(i) ==
    LET part == emitted[i]
        cs   == request.chunk_size \div 512
        done == SumNr(SubSeq(emitted, 1, i - 1))
        abs  == request.start_sector + done
    IN  /\ part.start_sector + part.nr_sectors <= cs
        /\ part.file_num = abs \div cs
        /\ part.start_sector = abs % cs
        /\ part.buf_offset = done

\* C1: for every request and every chunk size the router's parts add up to the
\* request's nr_sectors (so the router comes to its end with that sum), each
\* part lies inside one chunk, has file_num and start_sector of its absolute
\* start sector and buf_offset the sum of the earlier parts; (65500,100) with
\* 65536-sector chunks gives {0,65500,36,0} and {1,0,64,36}.
C1_PartsCoverRequest ==
    /\ [](\A i \in 1..Len(emitted) : PartOfRequest(i))
    /\ [](exhausted /\ request = ExampleRequest =>
            emitted = << [file_num |-> 0, start_sector |-> 65500,
                          nr_sectors |-> 36, buf_offset |-> 0],
                         [file_num |-> 1, start_sector |-> 0,
                          nr_sectors |-> 64, buf_offset |-> 36] >>)
    /\ <>(exhausted /\ SumNr(emitted) = request.nr_sectors)

\* C1, the request it fails on: the chunk has 2^32 sectors, left_in_chunk is 0
\* and the router has emitted MaxParts parts of no sector without advancing.
C1_RouterStuck ==
    /\ Len(emitted) = MaxParts
    /\ \A i \in 1..MaxParts : emitted[i].nr_sectors = 0
    /\ parts.nr_sectors = request.nr_sectors
    /\ ~exhausted

\* C36: for every chunk size init accepts, chunks of 2^32 sectors (2 TiB) and
\* more included, and every request of at least one sector, each part the
\* router emits has at least one sector and the router comes to its end.
C36_SplittingTerminates ==
    /\ [](request.nr_sectors >= 1 =>
              \A i \in 1..Len(emitted) : emitted[i].nr_sectors >= 1)
    /\ <>exhausted

\* C36, the request it fails on: chunks of 2^32 sectors and a request of at
\* least one sector of which the router has emitted a part of no sector.
C36_EmptyPartOfTwoTiBChunk ==
    /\ unit = 1073741824
    /\ request.chunk_size = 512 * 4
    /\ request.nr_sectors >= 1
    /\ Len(emitted) >= 1
    /\ emitted[1].nr_sectors = 0

\* C2 as stated: each part's (start_sector, buf_offset) pair is greater than
\* that of the part emitted before it.
C2_PartsAscendingInStartAndOffset ==
    \A i \in 2..Len(emitted) :
        \/ emitted[i-1].start_sector < emitted[i].start_sector
        \/ /\ emitted[i-1].start_sector = emitted[i].start_sector
           /\ emitted[i-1].buf_offset < emitted[i].buf_offset

\* C2 amended: the parts ascend in buf_offset, each part's buf_offset being its
\* predecessor's plus the predecessor's nr_sectors; start_sector is relative to
\* the chunk and does not ascend.
C2_PartsAscendingInBufOffset ==
    \A i \in 2..Len(emitted) :
        /\ emitted[i].buf_offset = emitted[i-1].buf_offset + emitted[i-1].nr_sectors
        /\ emitted[i].buf_offset >= emitted[i-1].buf_offset

\* C2: a request that crosses a chunk boundary; its second part starts at
\* sector 0 of the next chunk.
C2_PartAfterChunkBoundary ==
    /\ Len(emitted) >= 2
    /\ emitted[2].file_num = emitted[1].file_num + 1
    /\ emitted[2].start_sector = 0
    /\ emitted[1].start_sector > 0
    /\ emitted[2].buf_offset > emitted[1].buf_offset

(***************************************************************************)
(* Chunk materialisation on its own: workers that race on the chunks of    *)
(* one directory.                                                          *)
(***************************************************************************)
ChunkInit ==
    /\ ChunkIdle /\ WorkerInit /\ RouterIdle /\ SupervisorIdle /\ ConfigIdle
    /\ SpawnIdle

ChunkNext ==
    \/ \E c \in Callers, file_index \in ChunkIndexes : CallOpenOrCreate(c, file_index)
    \/ \E c \in Callers : Mkdir(c)
    \/ \E c \in Callers : Open(c)
    \/ \E c \in Callers : Ftruncate(c)
    \/ \E c \in Callers : FtruncateInterrupted(c)
    \/ \E c \in Callers, file_index \in ChunkIndexes, offset \in WriteOffsets :
          WriteChunk(c, build_filepath(file_index), offset)

ChunkSpec == ChunkInit /\ [][ChunkNext]_vars

\* C16: however the mkdir, open and ftruncate steps of the workers' calls for
\* one chunk interleave, every call succeeds, the file a call returned has
\* length chunk_size (also when the chunk is asked for again later: the file
\* returned is the one at the same path), and what a worker has written to the
\* chunk is still there after another worker's call.
C16_ChunkCallsAreIdempotent ==
    /\ \A c \in Callers :
          /\ callers[c].result # "err"
          /\ callers[c].pc = "idle" /\ callers[c].ncalls > 0 =>
                /\ callers[c].result = "ok"
                /\ build_filepath(callers[c].file_index) \in callers[c].handles
          /\ \A filepath \in callers[c].handles :
                /\ filepath \in DOMAIN chunk_files
                /\ chunk_files[filepath].len = ChunkSize
    /\ \A x \in written : x[2] \in chunk_files[x[1]].data

\* C16: a worker's second call for chunk 1 returned after another worker had
\* written to the chunk, and what was written is there.
C16_CalledAgainAfterWrite ==
    \E a, b \in Callers :
        /\ a # b
        /\ callers[a].pc = "idle" /\ callers[a].ncalls = 2
        /\ callers[a].file_index = 1 /\ callers[b].file_index = 1
        /\ callers[a].found_data
        /\ build_filepath(1) \in callers[b].handles
        /\ <<build_filepath(1), 0>> \in written
        /\ 0 \in chunk_files[build_filepath(1)].data

(***************************************************************************)
(* The supervisor on its own.                                              *)
(***************************************************************************)
SupervisorInit ==
    /\ \E threads \in 1..MaxHwQueues : SupervisorStart(threads)
    /\ WorkerInit /\ RouterIdle /\ ChunkIdle /\ ConfigIdle /\ SpawnIdle

SupervisorNext ==
    \/ SubmitCtrlCmd
    \/ \E answer \in CtrlAnswers : AddNewDev(answer)
    \/ \E answer \in CtrlAnswers, state \in DevStates, n \in 1..MaxHwQueues :
          GetDevInfo(answer, state, n)
    \/ \E answer \in CtrlAnswers : StartRecovery(answer)
    \/ \E limits_ok \in BOOLEAN, answer \in CtrlAnswers : SetDevParams(limits_ok, answer)
    \/ \E ok \in BOOLEAN : SetupSignals(ok)
    \/ \E ok \in BOOLEAN : OpenUblkcDev(ok)
    \/ \E ok \in BOOLEAN : SpawnWorker(ok)
    \/ \E answer \in CtrlAnswers : StartRecoverDev(answer)
    \/ \E res \in PollResults : HandleSigint(res)
    \/ \E answer \in CtrlAnswers : StopDev(answer)
    \/ JoinWorker
    \/ \E answer \in CtrlAnswers : DelDev(answer)
    \/ \E q \in 0..(MaxHwQueues - 1) : WorkerExits(q)
    \/ Signal

SupervisorSpec == SupervisorInit /\ [][SupervisorNext]_vars

\* The place of the first event ev in the log (0 if there is none).
FirstOf(ev) ==
    IF Logged(ev) THEN MinOf({i \in 1..Len(ctrl_log) : ctrl_log[i].ev = ev}) ELSE 0

DeviceExists == Len(ctrl_log) >= 1 /\ ctrl_log[1] = Event("ADD_DEV", -EEXIST)

\* C17: when ADD_DEV reports that the device exists, the next command is
\* GET_DEV_INFO; START_USER_RECOVERY is issued only for a device reported
\* QUIESCED or FAIL_IO; for one reported LIVE or DEAD the run has failed, and
\* nothing follows the query: no START_USER_RECOVERY, SET_PARAMS, spawned
\* worker, START_DEV or END_USER_RECOVERY.
C17_RecoveryOnlyOfQuiescedOrFailIo ==
    DeviceExists =>
        /\ sup.pc # "get_info" /\ ~Ended => Len(ctrl_log) >= 2
        /\ Len(ctrl_log) >= 2 => ctrl_log[2].ev = "GET_DEV_INFO"
        /\ Logged("START_USER_RECOVERY") =>
              /\ ctrl_log[2] = Event("GET_DEV_INFO", 0)
              /\ sup.dev_state \in {"QUIESCED", "FAIL_IO"}
        /\ sup.dev_state \in {"LIVE", "DEAD"} =>
              /\ sup.pc = "failed"
              /\ Len(ctrl_log) = 2
              /\ sup.spawned = 0
              /\ \A q \in DOMAIN worker_threads : worker_threads[q] = "none"

\* C17: a device reported LIVE has made the startup fail.
C17_LiveDeviceRefused ==
    /\ DeviceExists
    /\ sup.dev_state = "LIVE"
    /\ sup.pc = "failed"

\* C18: the first command is ADD_DEV; its result 0 yields NewDevice, -17
\* yields AttemptRecovery, and every other result is a fatal error, after
\* which no control command is issued and no worker is spawned.
C18_AddDevResultDecides ==
    Len(ctrl_log) >= 1 =>
        /\ ctrl_log[1].ev = "ADD_DEV"
        /\ ctrl_log[1].res = 0 => sup.add_result = "NewDevice" /\ sup.is_new_device
        /\ ctrl_log[1].res = -17 =>
              sup.add_result = "AttemptRecovery" /\ ~sup.is_new_device
        /\ ctrl_log[1].res \notin {0, -17} =>
              /\ sup.add_result = "Err"
              /\ sup.pc = "failed"
              /\ Len(ctrl_log) = 1
              /\ sup.spawned = 0
              /\ \A q \in DOMAIN worker_threads : worker_threads[q] = "none"

\* C18: ADD_DEV was answered with -EINVAL and the run has failed.
C18_AddDevFatal ==
    /\ ctrl_log = <<Event("ADD_DEV", -EINVAL)>>
    /\ sup.add_result = "Err"
    /\ sup.pc = "failed"

NewDevice == Len(ctrl_log) >= 1 /\ ctrl_log[1] = Event("ADD_DEV", 0)
Recovered == LoggedOk("START_USER_RECOVERY")

\* The run is past the point where the parameters are set.
PastSetParams ==
    sup.pc \in {"setup_signals", "open_ublkc", "spawn", "poll", "stop_dev", "join", "done"}

\* The run is past the point where the device is started.
PastStart ==
    \/ sup.pc \in {"poll", "stop_dev", "join", "done"}
    \/ Logged("START_DEV")
    \/ Logged("END_USER_RECOVERY")

\* C19: SET_PARAMS is only issued for a device ADD_DEV created, and a run that
\* goes on after ADD_DEV has issued it if and only if the device is new; the
\* command that starts the device is START_DEV if and only if the device is
\* new and END_USER_RECOVERY if and only if it is recovered;
\* END_USER_RECOVERY only comes after a START_USER_RECOVERY that succeeded.
C19_CommandsFollowNewOrRecovered ==
    /\ Logged("SET_PARAMS") => NewDevice
    /\ Logged("START_DEV") => NewDevice
    /\ Logged("END_USER_RECOVERY") =>
          /\ ~NewDevice
          /\ \E i \in 1..Len(ctrl_log) :
                /\ ctrl_log[i] = Event("START_USER_RECOVERY", 0)
                /\ i < FirstOf("END_USER_RECOVERY")
    /\ NewDevice /\ Len(ctrl_log) >= 2 => ctrl_log[2].ev = "SET_PARAMS"
    /\ PastSetParams =>
          /\ LoggedOk("SET_PARAMS") <=> NewDevice
          /\ Recovered <=> ~NewDevice
    /\ PastStart =>
          /\ Logged("START_DEV") <=> NewDevice
          /\ Logged("END_USER_RECOVERY") <=> Recovered

\* C19: a recovered device has been through its whole run.
C19_RecoveredRunDone ==
    /\ sup.pc = "done"
    /\ Recovered
    /\ LoggedOk("END_USER_RECOVERY")
    /\ ~Logged("SET_PARAMS")

\* Every event ev of the log has an event of the set before it.
After(ev, before) ==
    \A i \in 1..Len(ctrl_log) :
        ctrl_log[i].ev = ev => \E j \in 1..(i - 1) : ctrl_log[j] \in before

Named(evs) == {e \in {ctrl_log[i] : i \in 1..Len(ctrl_log)} : e.ev \in evs}

\* The queues whose event ev is in the log before the first event of evs.
QueuesBefore(ev, evs) ==
    {ctrl_log[i].res : i \in {i \in 1..Len(ctrl_log) :
        /\ ctrl_log[i].ev = ev
        /\ \E j \in (i + 1)..Len(ctrl_log) : ctrl_log[j].ev \in evs}}

StartCmds == {"START_DEV", "END_USER_RECOVERY"}

\* The order of a run up to the start of the device, and its end.
StartupAndTeardownOrder ==
    /\ After("BLOCK_SIGNALS", Named({"ADD_DEV"}))
    /\ NewDevice => After("BLOCK_SIGNALS", {Event("SET_PARAMS", 0)})
    /\ After("SPAWN", Named({"BLOCK_SIGNALS"}))
    /\ sup.blocked <=> Logged("BLOCK_SIGNALS")
    /\ (\E e \in StartCmds : Logged(e)) =>
          QueuesBefore("SPAWN", StartCmds) = 0..(sup.nr_hw_queues - 1)
    /\ After("DEL_DEV_ASYNC", {Event("STOP_DEV", 0)})
    /\ Logged("DEL_DEV_ASYNC") =>
          /\ QueuesBefore("JOIN", {"DEL_DEV_ASYNC"}) = 0..(sup.nr_hw_queues - 1)
          /\ \A q \in 0..(sup.nr_hw_queues - 1) : worker_threads[q] = "joined"

FailedStop ==
    \E i \in 1..Len(ctrl_log) : ctrl_log[i].ev = "STOP_DEV" /\ ctrl_log[i].res # 0

\* C21: a STOP_DEV that fails (an error, or no answer in time) does not end the
\* teardown: the run does not end before the workers are joined and
\* DEL_DEV_ASYNC is issued.
C21_TeardownGoesOnAfterFailedStop ==
    FailedStop /\ Ended =>
        /\ sup.joined = sup.spawned
        /\ Logged("DEL_DEV_ASYNC")

\* C21: STOP_DEV failed and the run has ended with it: no worker joined, no
\* DEL_DEV_ASYNC.
C21_FailedStopEndsRun ==
    /\ FailedStop
    /\ sup.pc = "failed"
    /\ ctrl_log[Len(ctrl_log)].ev = "STOP_DEV"
    /\ sup.joined = 0
    /\ ~Logged("DEL_DEV_ASYNC")

\* run has failed in its startup: before handle_sigint was reached, with the
\* device added or its recovery begun.
StartupFailed ==
    /\ sup.pc = "failed"
    /\ ~Logged("POLL")
    /\ LoggedOk("ADD_DEV") \/ LoggedOk("START_USER_RECOVERY")

Teardown == {"STOP_DEV", "DEL_DEV_ASYNC", "JOIN"}

\* C39: when a step of the startup fails after ADD_DEV or START_USER_RECOVERY
\* was done, run returns at once: it has sent no STOP_DEV and no
\* DEL_DEV_ASYNC, has joined no worker thread, and does nothing more.
C39_StartupFailureReturnsAtOnce ==
    /\ [](StartupFailed =>
              /\ \A ev \in Teardown : ~Logged(ev)
              /\ ctrl_ring \cap Teardown = {}
              /\ sup.joined = 0
              /\ \A q \in 0..(MaxHwQueues - 1) : worker_threads[q] # "joined")
    /\ [][StartupFailed => UNCHANGED <<sup, ctrl_log, ctrl_ring, worker_threads>>]_vars

\* C39: START_DEV or END_USER_RECOVERY failed with the worker threads spawned;
\* run has ended and no thread is joined.
C39_StartFailedWithWorkersSpawned ==
    /\ StartupFailed
    /\ ctrl_log[Len(ctrl_log)].ev \in StartCmds
    /\ ctrl_log[Len(ctrl_log)].res # 0
    /\ sup.spawned = MaxHwQueues
    /\ \A q \in 0..(MaxHwQueues - 1) : worker_threads[q] \in {"running", "exited"}

TimedOut(i) == ctrl_log[i].res = -ETIME

\* C22: a control command that gets no completion in time fails the run: it
\* is the last command, no control command is issued after it, and at no time
\* is more than one control command on the control ring.
C22_TimeoutIsFatalAndCommandsSerial ==
    /\ Cardinality(ctrl_ring) <= 1
    /\ ctrl_ring # {} /\ ~Ended => ctrl_ring = {DueCmd}
    /\ \A i \in 1..Len(ctrl_log) :
          TimedOut(i) =>
              /\ i = Len(ctrl_log)
              /\ sup.pc = "failed"
              /\ ctrl_ring = {ctrl_log[i].ev}

\* C22: STOP_DEV got no completion in time, and the run has failed with the
\* command still on the ring.
C22_StopDevTimedOut ==
    /\ Len(ctrl_log) >= 1
    /\ ctrl_log[Len(ctrl_log)] = Event("STOP_DEV", -ETIME)
    /\ sup.pc = "failed"
    /\ ctrl_ring = {"STOP_DEV"}

(***************************************************************************)
(* The command line on its own: init and expand on one repository.         *)
(***************************************************************************)
Arg(val, suffix) == [val |-> val, suffix |-> suffix]

SizeArgs(u) ==
    IF u = "B"
    THEN {Arg(255, "M"), Arg(256, "M"), Arg(268435457, ""), Arg(300, "m"), Arg(1, "G")}
    ELSE {Arg(1, "T"), Arg(U64Units - 1, "T"), Arg(U64Units, "T"), Arg(U64Units + 1, "t")}

ChunkSizeArgs(u) ==
    IF u = "B"
    THEN {None, Some(Arg(31, "M")), Some(Arg(32, "M")), Some(Arg(33554433, ""))}
    ELSE {Some(Arg(0, "T")), Some(Arg(1, "T")), Some(Arg(4, "T"))}

BytesArgs(u) ==
    IF u = "B"
    THEN {Arg(0, ""), Arg(1, ""), Arg(32, "M")}
    ELSE {Arg(0, "T"), Arg(1, "T"), Arg(U64Units - 2, "T"), Arg(U64Units + 1, "T")}

\* The optional flags of init: none, all of them, and --threads alone.
OptionArgs ==
    {[threads |-> None, dev_id |-> None, fsuid |-> None, fsgid |-> None],
     [threads |-> Some(2), dev_id |-> Some(7), fsuid |-> Some(1000), fsgid |-> Some(100)],
     [threads |-> Some(65537), dev_id |-> None, fsuid |-> None, fsgid |-> None]}

InitArgs(u) ==
    {[size |-> size, chunk_size |-> chunk_size, threads |-> o.threads,
      dev_id |-> o.dev_id, fsuid |-> o.fsuid, fsgid |-> o.fsgid] :
        size \in SizeArgs(u), chunk_size \in ChunkSizeArgs(u), o \in OptionArgs}

\* A configuration file written by hand.
WrittenByHand ==
    <<NumLine("version", 1), NumLine("size", 256 * MiB), NumLine("chunk-size", 32 * MiB),
      NumLine("threads", 4), TextLine("direct-io", "on")>>

ConfigInit ==
    /\ byte_unit \in ByteUnits
    /\ overflow_checks \in BOOLEAN
    /\ config_file \in {None} \cup (IF byte_unit = "B" THEN {Some(WrittenByHand)} ELSE {})
    /\ cli = NoRun
    /\ cli_runs = 0
    /\ WorkerInit /\ RouterIdle /\ ChunkIdle /\ SupervisorIdle /\ SpawnIdle

ConfigNext ==
    \/ \E args \in InitArgs("B") \cup InitArgs("TiB") : InitCmd(args)
    \/ \E arg \in BytesArgs("B") \cup BytesArgs("TiB") : ExpandCmd(arg)

ConfigSpec == ConfigInit /\ [][ConfigNext]_vars

\* x rounded up to a multiple of m, in the integers.
RoundedUp(x, m) == ((x + m - 1) \div m) * m

Expanded == cli.cmd = "expand" /\ cli.res = "ok"

\* C23: an expand that succeeds leaves a size that is at least the old size
\* plus the bytes asked for, is a multiple of the chunk size and is above the
\* old size when bytes were asked for, and leaves the chunk size as it was; the
\* file holds that size.  An expand whose sum or rounding does not fit in 64
\* bits fails, and an expand that fails leaves the file as it was.
C23_ExpandGrowsToChunkMultiple ==
    cli.cmd = "expand" =>
        /\ Expanded =>
              /\ cli.config.size >= cli.loaded.size + cli.bytes
              /\ cli.config.size % cli.config.chunk_size = 0
              /\ cli.bytes > 0 => cli.config.size > cli.loaded.size
              /\ cli.config.chunk_size = cli.loaded.chunk_size
              /\ read_config_file(config_file).config.size = cli.config.size
              /\ read_config_file(config_file).config.chunk_size = cli.loaded.chunk_size
        /\ /\ cli.res # "panic"
           /\ cli.file_before # None
           /\ cli.loaded.chunk_size > 0
           /\ Overflows(RoundedUp(cli.loaded.size + cli.bytes, cli.loaded.chunk_size),
                        byte_unit)
           => cli.res = "err"
        /\ cli.res # "ok" => config_file = cli.file_before

\* C23: an expand by a number of bytes that is not a multiple of the chunk
\* size has succeeded, and the size was rounded up.
C23_ExpandedAndRounded ==
    /\ Expanded
    /\ cli.bytes > 0
    /\ cli.loaded.size > 0
    /\ cli.config.size > cli.loaded.size + cli.bytes

\* C24: an init that succeeds leaves a chunk size that is a multiple of 4096
\* and a size that is a multiple of the chunk size and at least the size asked
\* for; a size below 256 MiB or a chunk size below 32 MiB is refused with an
\* error.
C24_InitRoundsUpAboveMinima ==
    cli.cmd = "init" =>
        /\ cli.res = "ok" =>
              /\ cli.config.chunk_size % Page(byte_unit) = 0
              /\ cli.config.size % cli.config.chunk_size = 0
              /\ cli.config.size >= cli.size_in
              /\ cli.size_in >= MinSize(byte_unit)
              /\ cli.chunk_size_in >= MinChunkSize(byte_unit)
        /\ cli.size_in < MinSize(byte_unit) \/ cli.chunk_size_in < MinChunkSize(byte_unit)
              => cli.res = "err"

\* C24: a size written with the suffix T that does not fit in 64 bits was
\* taken modulo 2^64, and init has made a repository smaller than asked for.
C24_InitWrappedSize ==
    /\ cli.cmd = "init"
    /\ cli.res = "ok"
    /\ Overflows(cli.size_in, byte_unit)
    /\ cli.config.size < cli.size_in
    /\ config_file = Some(to_string(cli.config))

\* The clauses of C24 for the arguments that fit in 64 bits.
InitOfFittingSizes ==
    ~Overflows(cli.size_in, byte_unit) => C24_InitRoundsUpAboveMinima

Saved == cli.res = "ok" /\ cli.cmd \in {"init", "expand"}
Reloaded == read_config_file(config_file)

\* C25: the configuration a command has saved loads back as it was saved:
\* version, dev_id, size, chunk_size, threads, fsuid, fsgid and direct_io.
C25_SavedConfigLoadsBack ==
    Saved =>
        /\ Reloaded.res = "ok"
        /\ Reloaded.config = cli.config

\* C25: init was given --threads, and the file it saved has no threads.
C25_ThreadsNotSaved ==
    /\ Saved
    /\ cli.cmd = "init"
    /\ cli.config.threads = Some(2)
    /\ Reloaded.res = "ok"
    /\ Reloaded.config.threads = None

\* The settings of C25 but threads.
SavedButThreadsLoadsBack ==
    Saved =>
        /\ Reloaded.res = "ok"
        /\ [Reloaded.config EXCEPT !.threads = None] = [cli.config EXCEPT !.threads = None]

(***************************************************************************)
(* A worker and its supervisor, from the spawn of the worker's thread to   *)
(* its join: the supervisor starts the device, waits for a signal and      *)
(* stops the device; the driver hands requests to the worker while the     *)
(* device is started and aborts the worker's commands once it is stopped.  *)
(***************************************************************************)
\* run has added a new device with one queue, set its parameters, blocked the
\* signals and spawned the thread of queue 0; START_DEV is due.
SupervisorSpawned ==
    /\ sup = [pc |-> "spawn", threads |-> 1, is_new_device |-> TRUE,
              add_result |-> "NewDevice", dev_state |-> "none",
              nr_hw_queues |-> 1, spawned |-> 1, joined |-> 0, blocked |-> TRUE]
    /\ ctrl_log = <<Event("ADD_DEV", 0), Event("SET_PARAMS", 0),
                    Event("BLOCK_SIGNALS", 0), Event("SPAWN", 0)>>
    /\ signal_pending = FALSE
    /\ worker_threads = [q \in 0..(MaxHwQueues - 1) |->
                            IF q = 0 THEN "running" ELSE "none"]
    /\ ctrl_ring = {}

Started == LoggedOk("START_DEV")
Stopped == LoggedOk("STOP_DEV")

\* The answer of a control command that the driver carries out.
Done == [cqe |-> TRUE, res |-> 0]

\* The requests the driver hands out in this specification.
LiveDescChoices ==
    { [op_flags |-> UBLK_IO_OP_READ, start_sector |-> 65535, nr_sectors |-> 2],
      [op_flags |-> UBLK_IO_OP_WRITE, start_sector |-> 0, nr_sectors |-> 1] }

\* START_DEV completes once the queue's tasks have their FETCH_REQ with the
\* driver.
DeviceStarts ==
    /\ \A tag \in Tags : CmdsOf(tag) \cap inflight # {}
    /\ StartRecoverDev(Done)

\* worker_thread_fn returns after Runtime::run has.
WorkerThreadEnds ==
    /\ rt = "returned"
    /\ WorkerExits(0)

\* The steps of the worker's thread.
ExecutorNext ==
    \/ RunAllTasks
    \/ RunReturns
    \/ SubmitAndWait
    \/ ProcessEntries
    \/ \E k \in entry_keys : RunTasksPoll(k, "ok")
    \/ WorkerThreadEnds

\* The driver completes a command with ABORT once the device is stopped.
AbortNext == \E e \in inflight : Stopped /\ DriverAbort(e)

\* A backing-file operation completes, in full or with -EIO.
BackingNext ==
    \/ \E e \in inflight : OpSucceeds(e)
    \/ \E e \in inflight : OpFails(e, EIO)

WorkerLiveInit ==
    /\ WorkerInit /\ RouterIdle /\ ChunkIdle /\ ConfigIdle /\ SpawnIdle
    /\ SupervisorSpawned

WorkerLiveNext ==
    \/ ExecutorNext
    \/ AbortNext
    \/ BackingNext
    \/ \E e \in inflight, d \in LiveDescChoices :
          Started /\ ~Stopped /\ DriverDeliver(e, d)
    \/ SubmitCtrlCmd
    \/ DeviceStarts
    \/ Signal
    \/ \E res \in PollResults : HandleSigint(res)
    \/ StopDev(Done)
    \/ JoinWorker
    \/ DelDev(Done)

\* The worker's thread can take a step: it is not blocked in the ring without
\* a completion to return with, and has not ended.
ThreadCanStep ==
    /\ worker_threads[0] = "running"
    /\ rt = "blocked" => cq # {}

RtStates == {"start", "wait", "blocked", "run_tasks", "returned"}

\* What tells a step of the worker's thread: every step of ExecutorNext moves
\* rt on, takes a key from the snapshot or ends the thread, and no other step
\* of this specification changes any of the three.
tvars == <<rt, entry_keys, worker_threads>>

ThreadSteps ==
    /\ ThreadCanStep
    /\ rt' \in RtStates
    /\ entry_keys' \in SUBSET (entry_keys \cup DOMAIN mailbox
                                  \cup {c.user_data : c \in cq})
    /\ worker_threads' \in {worker_threads,
                            [worker_threads EXCEPT ![0] = "exited"]}

\* The worker's thread goes on while it can; the driver aborts the commands
\* it holds once the device is stopped; the backing-file operations complete;
\* join returns once the thread has ended.
WorkerLiveSpec ==
    /\ WorkerLiveInit
    /\ [][WorkerLiveNext]_vars
    /\ WF_tvars(ThreadSteps)
    /\ WF_vars(AbortNext)
    /\ WF_vars(BackingNext)
    /\ WF_vars(JoinWorker)

\* ThreadSteps are the steps of ExecutorNext.
ThreadStepsAreExecutorSteps ==
    [][(ThreadSteps /\ tvars' # tvars) <=> ExecutorNext]_vars

\* C30: once STOP_DEV is done, with the driver aborting every outstanding
\* FETCH_REQ and COMMIT_AND_FETCH_REQ of the queue and every outstanding
\* backing-file operation completing, every task of the worker ends,
\* Runtime::run returns, the thread ends and the supervisor's join of it
\* returns.
C30_StoppedWorkerIsJoined ==
    Stopped ~> (live = {} /\ rt = "returned" /\ worker_threads[0] = "joined")

\* C30: the thread of a worker is joined whose tasks were stopped in their
\* work: one had committed a request and ended at the ABORT of its commit.
C30_JoinedAfterAbortedCommit ==
    /\ Stopped
    /\ worker_threads[0] = "joined"
    /\ rt = "returned"
    /\ \E tag \in Tags :
          /\ tasks[tag].ncommit >= 1
          /\ tasks[tag].pc = "done" /\ tasks[tag].outcome = "ok"

(***************************************************************************)
(* spawn_tasks on its own, for every queue depth of the input set.         *)
(***************************************************************************)
SpawnInit ==
    /\ \E queue_depth \in QueueDepths : SpawnStart(queue_depth)
    /\ WorkerInit /\ RouterIdle /\ ChunkIdle /\ SupervisorIdle /\ ConfigIdle

SpawnNext == SpawnTask \/ SpawnDone

SpawnSpec == SpawnInit /\ [][SpawnNext]_vars

\* C35: when spawn_tasks returns it has spawned queue_depth tasks, the keys
\* of the task table are the tags 0 .. queue_depth-1 (so pairwise distinct),
\* and every tag fits the 8 bits of the user-data word and of the table key.
C35_SpawnsQueueDepthTasks ==
    spawner.pc = "done" =>
        /\ spawner.nspawn = spawner.queue_depth
        /\ spawner.keys = 0..(spawner.queue_depth - 1)
        /\ \A tag \in spawner.keys : tag < 256

\* C35, the input it fails on: the device has queue_depth 256 and spawn_tasks
\* has returned with no task in the table.
C35_NoTaskForDepth256 ==
    /\ spawner.pc = "done"
    /\ spawner.queue_depth = 256
    /\ spawner.keys = {}
    /\ spawner.nspawn = 0

(***************************************************************************)
(* The worker with requests of many parts and of no sector: the executor,  *)
(* the driver and backing files that complete every operation in full.     *)
(***************************************************************************)
MaxBurstRequests == 3

\* A FLUSH as the driver hands it out (no sector), a WRITE_ZEROES of no sector
\* and a WRITE_ZEROES that reaches from the last sector of one chunk over two
\* whole chunks into a fourth (the descriptor's nr_sectors is a u32 and the
\* task does not bound it).
BurstDescChoices ==
    { [op_flags |-> UBLK_IO_OP_FLUSH, start_sector |-> 0, nr_sectors |-> 0],
      [op_flags |-> UBLK_IO_OP_WRITE_ZEROES, start_sector |-> 65535, nr_sectors |-> 0],
      [op_flags |-> UBLK_IO_OP_WRITE_ZEROES, start_sector |-> 65535,
       nr_sectors |-> 131074] }

\* A FETCH_REQ or COMMIT_AND_FETCH_REQ completes with the next request of its tag.
BurstDeliver(e, d) ==
    /\ rt = "blocked"
    /\ e \in inflight /\ IsCmd(e)
    /\ delivered < MaxBurstRequests
    /\ descs' = [descs EXCEPT ![e.cmd_tag] = d]
    /\ delivered' = delivered + 1
    /\ Complete(e, 0)
    /\ UNCHANGED faults

BurstNext ==
    \/ RunAllTasks
    \/ RunReturns
    \/ SubmitAndWait
    \/ ProcessEntries
    \/ \E k \in entry_keys : RunTasksPoll(k, "ok")
    \/ \E e \in inflight, d \in BurstDescChoices : BurstDeliver(e, d)
    \/ \E e \in inflight : DriverAbort(e)
    \/ \E e \in inflight : OpSucceeds(e)

BurstSpec == Init /\ [][BurstNext]_vars

\* C33: the submission queue never holds more entries than it has room for,
\* no entry that was pushed leaves the ring other than by its completion, and
\* every entry a task submits in a step is in the ring (pushed, or flushed to
\* the kernel) after the step, however many the tasks submit in one turn; no
\* task fails for it.
C33_NoPushOntoFullQueue ==
    /\ [](/\ Cardinality(sq) <= SqEntries
          /\ \A tag \in Tags : tasks[tag].outcome # "err")
    /\ [][/\ sq \subseteq sq' \cup inflight'
          /\ \A tag \in Tags :
                Cardinality(Pushed(tag)) = tasks'[tag].idx - tasks[tag].idx]_vars

\* C33: of the operations a task has submitted for one request in one poll,
\* one is with the kernel and a later one in the submission queue: the queue
\* was full and flushed in between.
C33_FlushedWithinOnePoll ==
    /\ rt \in {"run_tasks", "wait"}
    /\ \E tag \in live :
          LET t == tasks[tag]
          IN  /\ t.pc = "part_await"
              /\ \A i \in 1..Len(t.entries) :
                    Len(t.entries[i].subs) = 1 /\ t.entries[i].results = <<>>
              /\ \E i, j \in 1..Len(t.entries) :
                    /\ i < j
                    /\ t.entries[i].subs[1] \in inflight
                    /\ t.entries[j].subs[1] \in sq

NoSector(desc) ==
    /\ DescOp(desc) \in {UBLK_IO_OP_FLUSH, UBLK_IO_OP_WRITE_ZEROES}
    /\ desc.nr_sectors = 0

\* C38: a task that executes a FLUSH or WRITE_ZEROES descriptor of no sector
\* submits nothing but the COMMIT_AND_FETCH_REQ with result 0: it has no part,
\* no fsync or fallocate is pushed, and no chunk file is looked up or made.
C38_NoSectorNoPart ==
    [][\A tag \in Tags :
          LET t == tasks[tag]
              u == tasks'[tag]
          IN  u.gen = t.gen + 1 /\ NoSector(u.desc) =>
                  /\ u.entries = <<>>
                  /\ u.pc = "commit_await"
                  /\ u.committed = Some(0)
                  /\ Cardinality(Pushed(tag)) = 1
                  /\ \A e \in Pushed(tag) :
                        /\ IsCmd(e)
                        /\ e.cmd_op = "UBLK_U_IO_COMMIT_AND_FETCH_REQ"
                        /\ e.cmd_result = 0
                  /\ chunks' = chunks
                  /\ file_indexes' = file_indexes]_vars

\* C38: one task has committed a FLUSH and the other a WRITE_ZEROES of no
\* sector; no chunk file exists.
C38_FlushAndWriteZeroesOfNoSector ==
    /\ chunks = {}
    /\ \E a, b \in live :
          /\ DescOp(tasks[a].desc) = UBLK_IO_OP_FLUSH
          /\ DescOp(tasks[b].desc) = UBLK_IO_OP_WRITE_ZEROES
          /\ \A tag \in {a, b} :
                /\ tasks[tag].gen = 1
                /\ NoSector(tasks[tag].desc)
                /\ tasks[tag].pc = "commit_await"
                /\ tasks[tag].committed = Some(0)
                /\ CommitsOf(tag) # {}

(***************************************************************************)
(* The worker with reads of two parts whose operations fail or stall: the  *)
(* requests are at most max_sectors long, as the driver hands them out.    *)
(***************************************************************************)
MaxStallRequests == 5
MaxStallFaults == 3

\* set_dev_params: max_sectors = max_io_buf_bytes >> 9
MaxSectors == MaxIoBufBytes \div 512

\* The capacity of the SmallVec the entries of a request are collected in.
InlineParts == 8

\* A read of max_sectors that has the first chunk boundary in its middle.
StallDescChoices ==
    { [op_flags |-> UBLK_IO_OP_READ, start_sector |-> 65536 - MaxSectors \div 2,
       nr_sectors |-> MaxSectors] }

\* A FETCH_REQ or COMMIT_AND_FETCH_REQ completes with the next request of its tag.
StallDeliver(e, d) ==
    /\ rt = "blocked"
    /\ e \in inflight /\ IsCmd(e)
    /\ delivered < MaxStallRequests
    /\ descs' = [descs EXCEPT ![e.cmd_tag] = d]
    /\ delivered' = delivered + 1
    /\ Complete(e, 0)
    /\ UNCHANGED faults

\* A read fails with -EIO.
StallFails(e) ==
    /\ rt = "blocked"
    /\ e \in inflight /\ IsBacking(e)
    /\ faults < MaxStallFaults
    /\ faults' = faults + 1
    /\ Complete(e, -EIO)
    /\ UNCHANGED <<descs, delivered>>

StallNext ==
    \/ RunAllTasks
    \/ RunReturns
    \/ SubmitAndWait
    \/ ProcessEntries
    \/ \E k \in entry_keys : RunTasksPoll(k, "ok")
    \/ \E e \in inflight, d \in StallDescChoices : StallDeliver(e, d)
    \/ \E e \in inflight : DriverAbort(e)
    \/ \E e \in inflight : OpSucceeds(e)
    \/ \E e \in inflight : StallFails(e)

StallSpec == Init /\ [][StallNext]_vars

\* The submissions the kernel has taken whose completion the worker has not
\* drained from the completion queue.
Undrained == Cardinality(inflight) + Cardinality(cq)

\* C34: at all times at most 3 x queue_depth submissions of the worker are
\* outstanding, the size of its queues; a read or write request of at most
\* max_sectors sectors has at most two parts, fewer than the inline capacity.
C34_OutstandingWithinQueueSize ==
    /\ Undrained <= SqEntries
    /\ \A tag \in Tags :
          LET t == tasks[tag]
          IN  /\ t.desc.nr_sectors <= MaxSectors
              /\ Len(t.entries) <= 2
              /\ Len(t.entries) <= InlineParts

\* C34, a state it fails in: the kernel holds more operations than the queues
\* have entries, reads of requests the tasks have committed as failed among
\* them.
C34_MoreOutstandingThanEntries ==
    /\ Cardinality(inflight) > SqEntries
    /\ \E e \in inflight :
          IsRw(e) /\ e.req < tasks[TagOf(e)].gen

====
